---------------------------- MODULE Spec2Model ----------------------------
(***************************************************************************)
(* Line-following control core of the MediRunner robot                     *)
(* (src/device/hardware/line_follower.py, class LineFollower).             *)
(*                                                                         *)
(* Numbers.  The controller computes in Python floats.  The model holds    *)
(* every real quantity in fixed point:                                     *)
(*   speeds and corrections   in 1/SpeedScale  (hundredths of a percent),  *)
(*   line errors              in 1/ErrScale    (sixtieths: every weighted   *)
(*                            average of 1..5 integer weights is exact),    *)
(*   times                    in milliseconds,                              *)
(*   the integral accumulator in 1/(ErrScale*1000) (error * seconds,        *)
(*                            exact: it is only added to and clamped).      *)
(* Products and quotients of the PID terms are rounded to the nearest       *)
(* hundredth (RDiv), where the floats round to the nearest double.          *)
(*                                                                         *)
(* The fields _iteration and _start_time only feed the log lines printed    *)
(* by the controller; the log is not modelled and neither are they.         *)
(***************************************************************************)
EXTENDS Integers, Sequences, FiniteSets, TLC

VARIABLES
    Config,      \* the Config class attributes the controller reads
    lf,          \* the LineFollower instance: a record of its fields
    hw,          \* calls made on the sensor/motor collaborators by the last operation
    ret,         \* what the last operation returned (update: TRUE/FALSE)
    last_op,     \* the last operation performed on the controller
    reading,     \* the GPIO levels the last update() read from the sensor array
    reacquired,  \* whether the last update() logged "[LF:RECV] Line reacquired"
    lost_run,    \* consecutive update() ticks with no sensor on the line, counted
                 \* since the line was last seen, construction or reset()
    pid_calls,   \* number of calculate_pid_correction calls made so far
    epi,         \* the lost episodes as the motors saw them: phase is the phase
                 \* commanded by the latest lost tick of the running episode (0
                 \* when none has run); prev_dir is the search direction of the
                 \* episode before, from the tick that found the line again to
                 \* the first lost tick after it when that is the next tick;
                 \* prev_failed: the last tick found the line again after the
                 \* episode had reached the stop phase
    robot,       \* the owning controller (src/device/main.py, class MediRunnerRobot):
                 \* mode, auto_mode_active and its capture_panoramic tasks
    ctl,         \* what the owning controller did to the line follower:
                 \* fresh_reset: reset() was called and no update() since;
                 \* relinquished: update() returned False and autonomous
                 \* control was not activated since
    gateway      \* the gateway (src/gateway/app): the ConnectionManager's
                 \* robot_sockets and console_sockets dictionaries and, for
                 \* every robot websocket, where its robot_ws handler stands

vars == <<Config, lf, hw, ret, last_op, reading, reacquired, lost_run, pid_calls,
          epi, robot, ctl, gateway>>

----------------------------------------------------------------------------
(* Bounds of the model *)

\* lost ticks explored in one episode of the rule-based strategy (the code has
\* no cap on the counter); 70 is the last tick of the last search phase
MaxLost == 72
\* lost ticks explored in one episode of the PID strategy, which runs the same
\* handle_line_lost: past the first phase boundary (8); the episodes that
\* start before the first PID computation are explored to MaxLost
MaxPidLost == 10
\* PID computations explored in one behaviour
MaxPidCalls == 2
\* in the specification that feeds every sensor vector: consecutive lost
\* ticks and PID computations explored
MaxFnLost == 2
MaxFnCalls == 1

----------------------------------------------------------------------------
(* Fixed point *)

SpeedScale == 10 * 10
ErrScale == 3 * 4 * 5
MsPerSec == 10 * 100
IntScale == ErrScale * MsPerSec

Abs(x) == IF x < 0 THEN -x ELSE x
Max(a, b) == IF a >= b THEN a ELSE b
Min(a, b) == IF a <= b THEN a ELSE b

\* n / d rounded to the nearest integer (halves away from zero), d > 0
RDiv(n, d) == IF n >= 0 THEN (2 * n + d) \div (2 * d)
                        ELSE -((2 * (-n) + d) \div (2 * d))

----------------------------------------------------------------------------
(* Sensors *)

Names == {"left2", "left1", "center", "right1", "right2"}

\* mutant: the far sensors weigh as much as the near ones
SENSOR_WEIGHTS_flat ==
    [left2 |-> -1, left1 |-> -1, center |-> 0, right1 |-> 1, right2 |-> 1]

\* the weights as integers; the code holds the same values as floats
SENSOR_WEIGHTS ==
    [left2 |-> -2, left1 |-> -1, center |-> 0, right1 |-> 1, right2 |-> 2]

\* a reading as the dict of the five GPIO levels, written far-left to far-right
Bits(l2, l1, c, r1, r2) ==
    [left2 |-> l2, left1 |-> l1, center |-> c, right1 |-> r1, right2 |-> r2]

AllReadings == [Names -> {0, 1}]

\* LineFollower._read_sensors on the levels read from the sensor array
ReadSensors(raw) ==
    IF Config.INVERT_LINE_SENSORS THEN [k \in Names |-> 1 - raw[k]] ELSE raw

\* mutant: a non-zero value counts as on the line
On_nonzero(sensors, n) == IF sensors[n] # 0 THEN 1 ELSE 0

\* 1 if the sensor detects the line (value 0 after the configured inversion)
On(sensors, n) == IF sensors[n] = 0 THEN 1 ELSE 0

ActiveCount(sensors) ==
    On(sensors, "left2") + On(sensors, "left1") + On(sensors, "center")
        + On(sensors, "right1") + On(sensors, "right2")

WeightedSum(sensors) ==
    On(sensors, "left2") * SENSOR_WEIGHTS["left2"]
        + On(sensors, "left1") * SENSOR_WEIGHTS["left1"]
        + On(sensors, "center") * SENSOR_WEIGHTS["center"]
        + On(sensors, "right1") * SENSOR_WEIGHTS["right1"]
        + On(sensors, "right2") * SENSOR_WEIGHTS["right2"]

\* mutant: the weighted sum is not divided by the number of active sensors
get_line_error_sum(sensors) ==
    LET active_count == ActiveCount(sensors)
    IN IF active_count = 0
       THEN [none |-> TRUE, value |-> 0]
       ELSE [none |-> FALSE, value |-> WeightedSum(sensors) * ErrScale]

\* the error is None (no sensor on the line) or weighted_sum / active_count
get_line_error(sensors) ==
    LET active_count == ActiveCount(sensors)
    IN IF active_count = 0
       THEN [none |-> TRUE, value |-> 0]
       ELSE [none |-> FALSE,
             value |-> (WeightedSum(sensors) * ErrScale) \div active_count]

\* mutant: only all five sensors count as an intersection
detect_intersection_all(sensors) == ActiveCount(sensors) >= 5

detect_intersection(sensors) == ActiveCount(sensors) >= 4

----------------------------------------------------------------------------
(* Calls on the motor collaborator *)

Call(op, args) == [op |-> op, args |-> args]

ReadCall == Call("read_line_sensors", <<>>)

MotorOps == {"set_motor_speeds", "forward", "turn_left", "turn_right", "stop"}

----------------------------------------------------------------------------
(* If-condition controller *)

\* mutant: a near sensor alone is answered with the sharp speed
IfPattern_near_alone_sharp(self, sensors) ==
    LET l2 == sensors["left2"] = 0
        l1 == sensors["left1"] = 0
        c  == sensors["center"] = 0
        r1 == sensors["right1"] = 0
        r2 == sensors["right2"] = 0
        base   == self.base_speed
        slight == self.if_slight_speed
        sharp  == self.if_sharp_speed
    IN IF c /\ ~l2 /\ ~l1 /\ ~r1 /\ ~r2 THEN <<base, base>>          \* STRAIGHT (C)
       ELSE IF c /\ l1 /\ ~l2 /\ ~r1 /\ ~r2 THEN <<slight, base>>     \* SLIGHT_LEFT (C+L1)
       ELSE IF c /\ r1 /\ ~l1 /\ ~l2 /\ ~r2 THEN <<base, slight>>     \* SLIGHT_RIGHT (C+R1)
       ELSE IF c /\ l1 /\ r1 THEN <<base, base>>                      \* STRAIGHT (L1+C+R1)
       ELSE IF l1 /\ ~c /\ ~l2 /\ ~r1 /\ ~r2 THEN <<sharp, base>>     \* LEFT (L1)
       ELSE IF r1 /\ ~c /\ ~l1 /\ ~l2 /\ ~r2 THEN <<base, sharp>>     \* RIGHT (R1)
       ELSE IF l2 /\ ~r1 /\ ~r2 THEN <<sharp, base>>                  \* SHARP_LEFT (L2)
       ELSE IF r2 /\ ~l1 /\ ~l2 THEN <<base, sharp>>                  \* SHARP_RIGHT (R2)
       ELSE IF l2 /\ l1 /\ ~r1 /\ ~r2 THEN <<sharp, base>>            \* SHARP_LEFT (L2+L1)
       ELSE IF r2 /\ r1 /\ ~l1 /\ ~l2 THEN <<base, sharp>>            \* SHARP_RIGHT (R2+R1)
       ELSE IF l2 /\ l1 /\ c /\ r1 /\ r2 THEN <<base, base>>          \* INTERSECTION (ALL)
       ELSE <<base, base>>                                            \* FALLBACK

\* mutant: a far sensor gives the sharp turn whatever the opposite near sensor reads
IfPattern_far_wins(self, sensors) ==
    LET l2 == sensors["left2"] = 0
        l1 == sensors["left1"] = 0
        c  == sensors["center"] = 0
        r1 == sensors["right1"] = 0
        r2 == sensors["right2"] = 0
        base   == self.base_speed
        slight == self.if_slight_speed
        sharp  == self.if_sharp_speed
    IN IF c /\ ~l2 /\ ~l1 /\ ~r1 /\ ~r2 THEN <<base, base>>          \* STRAIGHT (C)
       ELSE IF c /\ l1 /\ ~l2 /\ ~r1 /\ ~r2 THEN <<slight, base>>     \* SLIGHT_LEFT (C+L1)
       ELSE IF c /\ r1 /\ ~l1 /\ ~l2 /\ ~r2 THEN <<base, slight>>     \* SLIGHT_RIGHT (C+R1)
       ELSE IF c /\ l1 /\ r1 THEN <<base, base>>                      \* STRAIGHT (L1+C+R1)
       ELSE IF l1 /\ ~c /\ ~l2 /\ ~r1 /\ ~r2 THEN <<slight, base>>    \* LEFT (L1)
       ELSE IF r1 /\ ~c /\ ~l1 /\ ~l2 /\ ~r2 THEN <<base, slight>>    \* RIGHT (R1)
       ELSE IF l2 /\ ~r2 THEN <<sharp, base>>                         \* SHARP_LEFT (L2)
       ELSE IF r2 /\ ~l2 THEN <<base, sharp>>                         \* SHARP_RIGHT (R2)
       ELSE IF l2 /\ l1 /\ ~r1 /\ ~r2 THEN <<sharp, base>>            \* SHARP_LEFT (L2+L1)
       ELSE IF r2 /\ r1 /\ ~l1 /\ ~l2 THEN <<base, sharp>>            \* SHARP_RIGHT (R2+R1)
       ELSE IF l2 /\ l1 /\ c /\ r1 /\ r2 THEN <<base, base>>          \* INTERSECTION (ALL)
       ELSE <<base, base>>                                            \* FALLBACK

\* mutant: the sharp turn boosts the outer wheel by the sharp value
IfPattern_boost(self, sensors) ==
    LET l2 == sensors["left2"] = 0
        l1 == sensors["left1"] = 0
        c  == sensors["center"] = 0
        r1 == sensors["right1"] = 0
        r2 == sensors["right2"] = 0
        base   == self.base_speed
        slight == self.if_slight_speed
        sharp  == self.if_sharp_speed
    IN IF c /\ ~l2 /\ ~l1 /\ ~r1 /\ ~r2 THEN <<base, base>>          \* STRAIGHT (C)
       ELSE IF c /\ l1 /\ ~l2 /\ ~r1 /\ ~r2 THEN <<slight, base>>     \* SLIGHT_LEFT (C+L1)
       ELSE IF c /\ r1 /\ ~l1 /\ ~l2 /\ ~r2 THEN <<base, slight>>     \* SLIGHT_RIGHT (C+R1)
       ELSE IF c /\ l1 /\ r1 THEN <<base, base>>                      \* STRAIGHT (L1+C+R1)
       ELSE IF l1 /\ ~c /\ ~l2 /\ ~r1 /\ ~r2 THEN <<slight, base>>    \* LEFT (L1)
       ELSE IF r1 /\ ~c /\ ~l1 /\ ~l2 /\ ~r2 THEN <<base, slight>>    \* RIGHT (R1)
       ELSE IF l2 /\ ~r1 /\ ~r2 THEN <<sharp, base + sharp>>           \* SHARP_LEFT (L2)
       ELSE IF r2 /\ ~l1 /\ ~l2 THEN <<base + sharp, base>>           \* SHARP_RIGHT (R2)
       ELSE IF l2 /\ l1 /\ ~r1 /\ ~r2 THEN <<sharp, base + sharp>>           \* SHARP_LEFT (L2+L1)
       ELSE IF r2 /\ r1 /\ ~l1 /\ ~l2 THEN <<base + sharp, base>>           \* SHARP_RIGHT (R2+R1)
       ELSE IF l2 /\ l1 /\ c /\ r1 /\ r2 THEN <<base, base>>          \* INTERSECTION (ALL)
       ELSE <<base, base>>                                            \* FALLBACK

\* the (left, right) pair chosen by the pattern table, before inversion and clamping
IfPattern(self, sensors) ==
    LET l2 == sensors["left2"] = 0
        l1 == sensors["left1"] = 0
        c  == sensors["center"] = 0
        r1 == sensors["right1"] = 0
        r2 == sensors["right2"] = 0
        base   == self.base_speed
        slight == self.if_slight_speed
        sharp  == self.if_sharp_speed
    IN IF c /\ ~l2 /\ ~l1 /\ ~r1 /\ ~r2 THEN <<base, base>>          \* STRAIGHT (C)
       ELSE IF c /\ l1 /\ ~l2 /\ ~r1 /\ ~r2 THEN <<slight, base>>     \* SLIGHT_LEFT (C+L1)
       ELSE IF c /\ r1 /\ ~l1 /\ ~l2 /\ ~r2 THEN <<base, slight>>     \* SLIGHT_RIGHT (C+R1)
       ELSE IF c /\ l1 /\ r1 THEN <<base, base>>                      \* STRAIGHT (L1+C+R1)
       ELSE IF l1 /\ ~c /\ ~l2 /\ ~r1 /\ ~r2 THEN <<slight, base>>    \* LEFT (L1)
       ELSE IF r1 /\ ~c /\ ~l1 /\ ~l2 /\ ~r2 THEN <<base, slight>>    \* RIGHT (R1)
       ELSE IF l2 /\ ~r1 /\ ~r2 THEN <<sharp, base>>                  \* SHARP_LEFT (L2)
       ELSE IF r2 /\ ~l1 /\ ~l2 THEN <<base, sharp>>                  \* SHARP_RIGHT (R2)
       ELSE IF l2 /\ l1 /\ ~r1 /\ ~r2 THEN <<sharp, base>>            \* SHARP_LEFT (L2+L1)
       ELSE IF r2 /\ r1 /\ ~l1 /\ ~l2 THEN <<base, sharp>>            \* SHARP_RIGHT (R2+R1)
       ELSE IF l2 /\ l1 /\ c /\ r1 /\ r2 THEN <<base, base>>          \* INTERSECTION (ALL)
       ELSE <<base, base>>                                            \* FALLBACK

\* max(min_motor_speed, min(100, speed))
\* mutant: the wheel speeds are capped at 100 and not raised to the floor
ClampSpeed_no_floor(self, speed) == Min(100 * SpeedScale, speed)

ClampSpeed(self, speed) == Max(self.min_motor_speed, Min(100 * SpeedScale, speed))

\* the inversion and clamping that follow the pattern table, for either
\* value of Config.INVERT_MOTOR_CORRECTION
if_correction_with(self, sensors, invert) ==
    LET p == IfPattern(self, sensors)
        q == IF invert THEN <<p[2], p[1]>> ELSE p
    IN <<ClampSpeed(self, q[1]), ClampSpeed(self, q[2])>>

calculate_if_correction(self, sensors) ==
    if_correction_with(self, sensors, Config.INVERT_MOTOR_CORRECTION)

----------------------------------------------------------------------------
(* PID controller *)

\* mutant: the floor is 1 ms instead of 10 ms
PidDt_short_floor(self, now) ==
    LET dt == now - self.last_time
    IN IF dt <= 0 THEN 1 ELSE dt

\* dt = current_time - last_time, 0.01 s when that is not positive
PidDt(self, now) ==
    LET dt == now - self.last_time
    IN IF dt <= 0 THEN 10 ELSE dt

\* mutant: the accumulator is not clamped
PidIntegral_unclamped(self, error, dt) == self.integral + error * dt

\* self.integral += error * dt, clamped to [-max_integral, max_integral]
PidIntegral(self, error, dt) ==
    LET max_integral == 10 * IntScale
    IN Max(-max_integral, Min(max_integral, self.integral + error * dt))

\* mutant: the raw correction is returned unsmoothed
calculate_pid_correction_unsmoothed(self, error, now) ==
    LET dt       == PidDt(self, now)
        p_term   == RDiv(self.kp * error * SpeedScale, ErrScale)
        integral == PidIntegral(self, error, dt)
        i_term   == RDiv(self.ki * integral * SpeedScale, IntScale)
        d_term   == RDiv(self.kd * 7 * (error - self.previous_error) * MsPerSec * SpeedScale,
                         10 * ErrScale * dt)
        correction == p_term + i_term + d_term
    IN [self |-> [self EXCEPT !.integral = integral,
                              !.previous_error = error,
                              !.last_time = now,
                              !.last_correction = correction],
        correction |-> correction]

\* mutant: previous_error is not overwritten with the error of the tick
calculate_pid_correction_stale_error(self, error, now) ==
    LET dt       == PidDt(self, now)
        p_term   == RDiv(self.kp * error * SpeedScale, ErrScale)
        integral == PidIntegral(self, error, dt)
        i_term   == RDiv(self.ki * integral * SpeedScale, IntScale)
        d_term   == RDiv(self.kd * 7 * (error - self.previous_error) * MsPerSec * SpeedScale,
                         10 * ErrScale * dt)
        raw_correction == p_term + i_term + d_term
        correction == RDiv(7 * raw_correction + 3 * self.last_correction, 10)
    IN [self |-> [self EXCEPT !.integral = integral,
                              !.last_time = now,
                              !.last_correction = correction],
        correction |-> correction]

\* returns the updated instance and the correction
calculate_pid_correction(self, error, now) ==
    LET dt       == PidDt(self, now)
        p_term   == RDiv(self.kp * error * SpeedScale, ErrScale)
        integral == PidIntegral(self, error, dt)
        i_term   == RDiv(self.ki * integral * SpeedScale, IntScale)
        \* kd * alpha * (error - previous_error) / dt, alpha = 0.7
        d_term   == RDiv(self.kd * 7 * (error - self.previous_error) * MsPerSec * SpeedScale,
                         10 * ErrScale * dt)
        raw_correction == p_term + i_term + d_term
        \* (1 - smooth_factor) * correction + smooth_factor * last_correction, 0.3
        correction == RDiv(7 * raw_correction + 3 * self.last_correction, 10)
    IN [self |-> [self EXCEPT !.integral = integral,
                              !.previous_error = error,
                              !.last_time = now,
                              !.last_correction = correction],
        correction |-> correction]

\* mutant: the correction is subtracted on the left and added on the right
apply_correction_crossed(self, correction, invert) ==
    LET corr == IF invert THEN -correction ELSE correction
        left_speed  == self.base_speed - corr
        right_speed == self.base_speed + corr
    IN Call("set_motor_speeds",
            <<ClampSpeed(self, left_speed), ClampSpeed(self, right_speed)>>)

\* mutant: the inversion negates the correction for the left wheel only
apply_correction_left_only(self, correction, invert) ==
    LET corr == IF invert THEN -correction ELSE correction
        left_speed  == self.base_speed + corr
        right_speed == self.base_speed - correction
    IN Call("set_motor_speeds",
            <<ClampSpeed(self, left_speed), ClampSpeed(self, right_speed)>>)

\* the motors.set_motor_speeds call made for a correction, for either value
\* of Config.INVERT_MOTOR_CORRECTION
apply_correction_with(self, correction, invert) ==
    LET corr == IF invert THEN -correction ELSE correction
        left_speed  == self.base_speed + corr
        right_speed == self.base_speed - corr
    IN Call("set_motor_speeds",
            <<ClampSpeed(self, left_speed), ClampSpeed(self, right_speed)>>)

apply_correction(self, correction) ==
    apply_correction_with(self, correction, Config.INVERT_MOTOR_CORRECTION)

----------------------------------------------------------------------------
(* Line-lost recovery *)

\* mutant: the thresholds are compared the wrong way round
SearchDirection_swapped(self) ==
    IF self.last_known_error * 10 < -3 * ErrScale THEN "right"
    ELSE IF self.last_known_error * 10 > 3 * ErrScale THEN "left"
    ELSE IF self.last_direction # "center" THEN self.last_direction
    ELSE "right"

\* mutant: with the line last seen at the centre the direction of the episode
\* before is kept
SearchDirection_carried_over(self) ==
    IF self.last_known_error * 10 < -3 * ErrScale THEN "left"
    ELSE IF self.last_known_error * 10 > 3 * ErrScale THEN "right"
    ELSE IF self.last_direction # "center" THEN self.last_direction
    ELSE self.search_direction

\* the search direction chosen on the first lost tick of an episode
SearchDirection(self) ==
    IF self.last_known_error * 10 < -3 * ErrScale THEN "left"
    ELSE IF self.last_known_error * 10 > 3 * ErrScale THEN "right"
    ELSE IF self.last_direction # "center" THEN self.last_direction
    ELSE "right"

\* mutant: the counter stops at the give-up threshold
LostCount_capped(self) == Min(71, self.line_lost_counter + 1)

\* self.line_lost_counter += 1; count = self.line_lost_counter
LostCount(self) == self.line_lost_counter + 1

\* mutant: the robot creeps once more between the two rotations
RecoveryPhase_creep_again(count) ==
    IF count <= 8 THEN 1
    ELSE IF count <= 35 THEN 2
    ELSE IF count = 36 THEN 1
    ELSE IF count <= 70 THEN 3
    ELSE 4

\* mutant: the creep phase ends one tick late
RecoveryPhase_late_creep(count) ==
    IF count <= 9 THEN 1
    ELSE IF count <= 35 THEN 2
    ELSE IF count <= 70 THEN 3
    ELSE 4

\* mutant: the search is given up on the 70th tick
RecoveryPhase_early_stop(count) ==
    IF count <= 8 THEN 1
    ELSE IF count <= 35 THEN 2
    ELSE IF count < 70 THEN 3
    ELSE 4

\* the phase the if-chain on count selects
RecoveryPhase(count) ==
    IF count <= 8 THEN 1
    ELSE IF count <= 35 THEN 2
    ELSE IF count <= 70 THEN 3
    ELSE 4

\* mutant: the direction is turned round when the counter-rotation starts
EpisodeDirection_flipped(self, count) ==
    IF count = 1 THEN SearchDirection(self)
    ELSE IF count = 36
    THEN (IF self.search_direction = "left" THEN "right" ELSE "left")
    ELSE self.search_direction

\* search_direction after the tick: decided when count == 1, kept otherwise
EpisodeDirection(self, count) ==
    IF count = 1 THEN SearchDirection(self) ELSE self.search_direction

\* mutant: the creep phase does not return and falls through to the rotation
PhaseCalls_fallthrough(self, phase) ==
    LET search_speed == Min(Config.TURN_MOTOR_SPEED, 45) * SpeedScale
        fwd_speed == (self.base_speed * 4) \div 10
        turn == IF self.search_direction = "left"
                THEN <<Call("turn_left", <<search_speed>>)>>
                ELSE <<Call("turn_right", <<search_speed>>)>>
        back == IF self.search_direction = "left"
                THEN <<Call("turn_right", <<search_speed>>)>>
                ELSE <<Call("turn_left", <<search_speed>>)>>
    IN IF phase = 1 THEN <<Call("forward", <<fwd_speed>>)>> \o turn
       ELSE IF phase = 2 THEN turn
       ELSE IF phase = 3 THEN back
       ELSE <<Call("stop", <<>>)>>

\* the calls made on the motors in each phase; every phase returns after its call
PhaseCalls(self, phase) ==
    LET search_speed == Min(Config.TURN_MOTOR_SPEED, 45) * SpeedScale
        fwd_speed == (self.base_speed * 4) \div 10
    IN IF phase = 1 THEN <<Call("forward", <<fwd_speed>>)>>
       ELSE IF phase = 2
       THEN IF self.search_direction = "left"
            THEN <<Call("turn_left", <<search_speed>>)>>
            ELSE <<Call("turn_right", <<search_speed>>)>>
       ELSE IF phase = 3
       THEN IF self.search_direction = "left"
            THEN <<Call("turn_right", <<search_speed>>)>>
            ELSE <<Call("turn_left", <<search_speed>>)>>
       ELSE <<Call("stop", <<>>)>>

\* mutant: the recovery clears the PID memory
handle_line_lost_clears_pid(self) ==
    LET count == LostCount(self)
        phase == RecoveryPhase(count)
        s1 == [self EXCEPT !.line_lost_counter = count,
                           !.search_direction = EpisodeDirection(self, count),
                           !.integral = 0,
                           !.last_correction = 0]
    IN [self |-> s1, calls |-> PhaseCalls(s1, phase), ret |-> phase # 4]

\* returns the updated instance, the motor calls made and the value returned
handle_line_lost(self) ==
    LET count == LostCount(self)
        phase == RecoveryPhase(count)
        s1 == [self EXCEPT !.line_lost_counter = count,
                           !.search_direction = EpisodeDirection(self, count)]
    IN [self |-> s1, calls |-> PhaseCalls(s1, phase), ret |-> phase # 4]

-----------
(* Main update loop *)

\* mutant: the counter is not cleared when the line is found
LineFound_kept(self) == self

\* "Line found": the reacquisition is logged if the counter is positive, and
\* the counter is cleared
LineFound(self) == [self EXCEPT !.line_lost_counter = 0]

\* mutant: last_direction is decided with a dead band of 0.5
update_pid_wide_band(self, raw, now) ==
    LET sensors == ReadSensors(raw)
        error == get_line_error(sensors)
    IN IF error.none
       THEN LET r == handle_line_lost(self)
            IN [self |-> r.self, hw |-> <<ReadCall>> \o r.calls, ret |-> r.ret,
                recv |-> FALSE]
       ELSE LET s1 == [LineFound(self) EXCEPT
                         !.last_known_error = error.value,
                         !.last_direction =
                             IF error.value * 10 < -5 * ErrScale THEN "left"
                             ELSE IF error.value * 10 > 5 * ErrScale THEN "right"
                             ELSE "center"]
                r == calculate_pid_correction(s1, error.value, now)
            IN [self |-> r.self,
                hw |-> <<ReadCall, apply_correction(r.self, r.correction)>>,
                ret |-> TRUE,
                recv |-> self.line_lost_counter > 0]

\* each returns the updated instance, the collaborator calls in order, the
\* result, and whether the reacquisition line was logged
update_pid(self, raw, now) ==
    LET sensors == ReadSensors(raw)
        error == get_line_error(sensors)
    IN IF error.none
       THEN LET r == handle_line_lost(self)
            IN [self |-> r.self, hw |-> <<ReadCall>> \o r.calls, ret |-> r.ret,
                recv |-> FALSE]
       ELSE LET s1 == [LineFound(self) EXCEPT
                         !.last_known_error = error.value,
                         !.last_direction =
                             IF error.value * 10 < -3 * ErrScale THEN "left"
                             ELSE IF error.value * 10 > 3 * ErrScale THEN "right"
                             ELSE "center"]
                r == calculate_pid_correction(s1, error.value, now)
            IN [self |-> r.self,
                hw |-> <<ReadCall, apply_correction(r.self, r.correction)>>,
                ret |-> TRUE,
                recv |-> self.line_lost_counter > 0]

update_if(self, raw) ==
    LET sensors == ReadSensors(raw)
        active_count == ActiveCount(sensors)
    IN IF active_count = 0
       THEN LET r == handle_line_lost(self)
            IN [self |-> r.self, hw |-> <<ReadCall>> \o r.calls, ret |-> r.ret,
                recv |-> FALSE]
       ELSE LET s1 == [LineFound(self) EXCEPT
                         !.last_direction =
                             IF sensors["left2"] = 0 \/ sensors["left1"] = 0 THEN "left"
                             ELSE IF sensors["right2"] = 0 \/ sensors["right1"] = 0 THEN "right"
                             ELSE "center",
                         !.last_known_error =
                             IF sensors["left2"] = 0 \/ sensors["left1"] = 0 THEN -ErrScale
                             ELSE IF sensors["right2"] = 0 \/ sensors["right1"] = 0 THEN ErrScale
                             ELSE 0]
                speeds == calculate_if_correction(s1, sensors)
            IN [self |-> s1,
                hw |-> <<ReadCall, Call("set_motor_speeds", speeds)>>,
                ret |-> TRUE,
                recv |-> self.line_lost_counter > 0]

\* mutant: once the recovery has given up, every tick is a recovery tick
update_failure_latched(self, raw, now) ==
    IF self.line_lost_counter > 70
    THEN LET r == handle_line_lost(self)
         IN [self |-> r.self, hw |-> <<ReadCall>> \o r.calls, ret |-> r.ret,
             recv |-> FALSE]
    ELSE IF self.mode = "if" THEN update_if(self, raw)
    ELSE update_pid(self, raw, now)

\* mutant: the PID strategy runs whatever the configured mode
update_always_pid(self, raw, now) == update_pid(self, raw, now)

update(self, raw, now) ==
    IF self.mode = "if" THEN update_if(self, raw) ELSE update_pid(self, raw, now)

----------------------------------------------------------------------------
(* Utility *)

\* mutant: the memory of where the line was last seen is not cleared
reset_keeps_last_seen(self, now) ==
    [self EXCEPT !.previous_error = 0,
                 !.integral = 0,
                 !.last_time = now,
                 !.last_correction = 0,
                 !.line_lost_counter = 0]

\* mutant: the integral accumulator is not cleared
reset_keeps_integral(self, now) ==
    [self EXCEPT !.previous_error = 0,
                 !.last_time = now,
                 !.last_correction = 0,
                 !.line_lost_counter = 0,
                 !.last_known_error = 0,
                 !.last_direction = "center"]

reset(self, now) ==
    [self EXCEPT !.previous_error = 0,
                 !.integral = 0,
                 !.last_time = now,
                 !.last_correction = 0,
                 !.line_lost_counter = 0,
                 !.last_known_error = 0,
                 !.last_direction = "center"]

\* max(15, base_speed * 0.25)
MinMotorSpeed(base_speed) == Max(15 * SpeedScale, base_speed \div 4)

\* mutant: min_motor_speed is not recomputed
set_speed_stale_floor(self, speed) ==
    [self EXCEPT !.base_speed = Max(20, Min(100, speed)) * SpeedScale]

set_speed(self, speed) ==
    LET base_speed == Max(20, Min(100, speed)) * SpeedScale
    IN [self EXCEPT !.base_speed = base_speed,
                    !.min_motor_speed = MinMotorSpeed(base_speed)]

\* an optional gain is <<>> for None and <<v>> for the value v
None == <<>>

set_pid_gains(self, kp, ki, kd) ==
    [self EXCEPT !.kp = IF kp # None THEN kp[1] ELSE @,
                 !.ki = IF ki # None THEN ki[1] ELSE @,
                 !.kd = IF kd # None THEN kd[1] ELSE @]

\* LineFollower.__init__: the instance built from Config at time now
construct(cfg, now) ==
    [mode |-> cfg.LINE_FOLLOW_MODE,
     kp |-> cfg.LINE_FOLLOW_KP,
     ki |-> cfg.LINE_FOLLOW_KI,
     kd |-> cfg.LINE_FOLLOW_KD,
     previous_error |-> 0,
     integral |-> 0,
     last_time |-> now,
     last_correction |-> 0,
     base_speed |-> cfg.LINE_FOLLOW_SPEED * SpeedScale,
     min_motor_speed |-> MinMotorSpeed(cfg.LINE_FOLLOW_SPEED * SpeedScale),
     if_slight_speed |-> cfg.LINE_FOLLOW_IF_SLIGHT_SPEED * SpeedScale,
     if_sharp_speed |-> cfg.LINE_FOLLOW_IF_SHARP_SPEED * SpeedScale,
     line_lost_counter |-> 0,
     last_known_error |-> 0,
     last_direction |-> "center",
     max_lost_iterations |-> cfg.LINE_LOST_MAX_COUNT,
     search_phase |-> 0,
     search_direction |-> "right"]

----------------------------------------------------------------------------------------------------------------------------------------
(* The environment: configurations, sensor readings, clock values, arguments *)

\* Config as loaded from the environment.  LINE_FOLLOW_SPEED is whatever
\* integer the variable holds: the constructor does not check it.
Configs ==
    { c \in [LINE_FOLLOW_MODE : {"pid", "if"},
             LINE_FOLLOW_KP : {15},
             LINE_FOLLOW_KI : {0},
             LINE_FOLLOW_KD : {5},
             LINE_FOLLOW_SPEED : {10, 50, 404},
             LINE_FOLLOW_IF_SLIGHT_SPEED : {35},
             LINE_FOLLOW_IF_SHARP_SPEED : {10},
             LINE_LOST_MAX_COUNT : {20},
             TURN_MOTOR_SPEED : {60},
             INVERT_MOTOR_CORRECTION : BOOLEAN,
             INVERT_LINE_SENSORS : BOOLEAN] :
        IF c.LINE_FOLLOW_MODE = "pid"
        THEN /\ c.LINE_FOLLOW_SPEED \in {10, 50}
             /\ c.INVERT_LINE_SENSORS = c.INVERT_MOTOR_CORRECTION
             /\ c.LINE_FOLLOW_SPEED = 10 => ~c.INVERT_MOTOR_CORRECTION
        ELSE c.LINE_FOLLOW_SPEED \in {50, 404} }

NoLine == Bits(1,1,1,1,1)

\* Normalised readings (0 = on the line) far-left to far-right: no line, and
\* one reading for every branch of the pattern table that a reading can reach
Readings ==
    { NoLine, Bits(1,1,0,1,1), Bits(1,0,0,1,1), Bits(1,1,0,0,1),
      Bits(1,0,0,0,1), Bits(0,0,0,0,1), Bits(0,0,0,0,0), Bits(1,0,1,1,1),
      Bits(1,1,1,0,1), Bits(0,1,1,1,1), Bits(1,1,1,1,0), Bits(0,1,1,1,0) }

\* In PID mode only the error of a reading matters: no line, error 0,
\* error -0.5 and error +2
PidReadings ==
    { NoLine, Bits(1,1,0,1,1), Bits(1,0,0,1,1), Bits(1,1,1,1,0) }

\* the GPIO levels that the configured polarity normalises to s
Raw(s) == IF Config.INVERT_LINE_SENSORS THEN [k \in Names |-> 1 - s[k]] ELSE s

\* values of time.time() in ms, read in any order: equal readings and
\* readings 30 s apart, forwards or backwards
Times == {0, 30000}

\* arguments of set_speed and set_pid_gains
SpeedArgs == {10, 50, 150}
GainArgs == {<<None, <<2>>, <<0>>>>}

----------------------------------------------------------------------------
(* Specification *)

\* no lost episode has run
NoEpisode == [phase |-> 0, prev_dir |-> "none", prev_failed |-> FALSE]

\* the controller is exercised on its own: no owning controller acts
NoRobot == [mode |-> "manual", auto_mode_active |-> FALSE, tasks |-> <<>>, auto_stops |-> 0]
NoControl == [fresh_reset |-> FALSE, relinquished |-> FALSE]
\* no gateway runs: the dictionaries of a ConnectionManager nobody connected to
NoGateway == [robot_sockets |-> <<>>, console_sockets |-> <<>>, conns |-> <<>>]

Init ==
    /\ Config \in Configs
    /\ \E now \in Times : lf = construct(Config, now)
    /\ hw = <<>>
    /\ ret = TRUE
    /\ last_op = "init"
    /\ reading = Raw(NoLine)
    /\ reacquired = FALSE
    /\ lost_run = 0
    /\ pid_calls = 0
    /\ epi = NoEpisode
    /\ robot = NoRobot
    /\ ctl = NoControl
    /\ gateway = NoGateway

\* the phase a lost tick commanded, read off its motor call: forward, rotation
\* towards search_direction, rotation away from it, stop
CommandedPhase(self, calls) ==
    LET op == calls[Len(calls)].op
    IN IF op = "forward" THEN 1
       ELSE IF op = "stop" THEN 4
       ELSE IF op = (IF self.search_direction = "left" THEN "turn_left" ELSE "turn_right")
       THEN 2
       ELSE 3

\* update() on the GPIO levels raw; now is what time.time() returns if it is
\* read, calls the number of PID computations the tick makes
UpdateCore(raw, now, calls) ==
    \E r \in {update(lf, raw, now)} :
        /\ lf' = r.self
        /\ hw' = r.hw
        /\ ret' = r.ret
        /\ last_op' = "update"
        /\ reading' = raw
        /\ reacquired' = r.recv
        /\ lost_run' = IF ActiveCount(ReadSensors(raw)) = 0 THEN lost_run + 1 ELSE 0
        /\ pid_calls' = pid_calls + calls
        /\ epi' = IF ActiveCount(ReadSensors(raw)) = 0
                  THEN [phase |-> CommandedPhase(r.self, r.hw),
                        prev_dir |-> IF lost_run = 0 THEN epi.prev_dir ELSE "none",
                        prev_failed |-> FALSE]
                  ELSE [phase |-> 0,
                        prev_dir |-> IF r.recv THEN lf.search_direction ELSE "none",
                        prev_failed |-> r.recv /\ epi.phase = 4]
        /\ UNCHANGED <<gateway, Config>>

\* update() called directly, with no owning controller
UpdateStep(raw, now, calls) ==
    /\ UpdateCore(raw, now, calls)
    /\ UNCHANGED <<robot, ctl>>

\* a tick of the rule-based strategy: the clock is not read
UpdateIf ==
    /\ lf.mode = "if"
    /\ \E s \in Readings :
           /\ s = NoLine => lf.line_lost_counter < MaxLost
           /\ UpdateStep(Raw(s), 0, 0)

\* a tick of the PID strategy with no sensor on the line: the clock is not read
UpdatePidLost ==
    /\ lf.mode # "if"
    /\ lf.line_lost_counter < (IF pid_calls = 0 THEN MaxLost ELSE MaxPidLost)
    /\ UpdateStep(Raw(NoLine), 0, 0)

\* a tick of the PID strategy with the line in view
UpdatePidSeen ==
    /\ lf.mode # "if"
    /\ pid_calls < MaxPidCalls
    /\ \E s \in PidReadings \ {NoLine}, now \in Times : UpdateStep(Raw(s), now, 1)

Reset ==
    \E now \in Times :
        /\ lf' = reset(lf, now)
        /\ hw' = <<>>
        /\ last_op' = "reset"
        /\ reacquired' = FALSE
        /\ lost_run' = 0
        /\ epi' = NoEpisode
        /\ UNCHANGED <<gateway, Config, ret, reading, pid_calls, robot, ctl>>

SetSpeed ==
    \E speed \in SpeedArgs :
        /\ lf' = set_speed(lf, speed)
        /\ hw' = <<>>
        /\ last_op' = "set_speed"
        /\ reacquired' = FALSE
        /\ UNCHANGED <<gateway, Config, ret, reading, lost_run, pid_calls, epi, robot, ctl>>

SetPidGains ==
    \E g \in GainArgs :
        /\ lf' = set_pid_gains(lf, g[1], g[2], g[3])
        /\ hw' = <<>>
        /\ last_op' = "set_pid_gains"
        /\ reacquired' = FALSE
        /\ UNCHANGED <<gateway, Config, ret, reading, lost_run, pid_calls, epi, robot, ctl>>

----------------------------------------------------------------------------
(* A second specification: update() fed every one of the 32 sensor vectors,
   under small, default and oversized LINE_FOLLOW_SPEED, for the estimator
   and the pattern table *)

FnConfigs ==
    { c \in [LINE_FOLLOW_MODE : {"pid", "if"},
             LINE_FOLLOW_KP : {15},
             LINE_FOLLOW_KI : {0},
             LINE_FOLLOW_KD : {5},
             LINE_FOLLOW_SPEED : {10, 50, 404},
             LINE_FOLLOW_IF_SLIGHT_SPEED : {35},
             LINE_FOLLOW_IF_SHARP_SPEED : {10},
             LINE_LOST_MAX_COUNT : {20},
             TURN_MOTOR_SPEED : {60},
             INVERT_MOTOR_CORRECTION : BOOLEAN,
             INVERT_LINE_SENSORS : BOOLEAN] :
        c.LINE_FOLLOW_MODE = "pid" => c.LINE_FOLLOW_SPEED = 50 }

FnInit ==
    /\ Config \in FnConfigs
    /\ lf = construct(Config, 0)
    /\ hw = <<>>
    /\ ret = TRUE
    /\ last_op = "init"
    /\ reading = Raw(NoLine)
    /\ reacquired = FALSE
    /\ lost_run = 0
    /\ pid_calls = 0
    /\ epi = NoEpisode
    /\ robot = NoRobot
    /\ ctl = NoControl
    /\ gateway = NoGateway

\* a tick of the rule-based strategy on any GPIO levels
FnUpdateIf ==
    /\ lf.mode = "if"
    /\ \E raw \in AllReadings :
           /\ ActiveCount(ReadSensors(raw)) = 0 => lf.line_lost_counter < MaxFnLost
           /\ UpdateStep(raw, 0, 0)

\* a tick of the PID strategy on any GPIO levels
FnUpdatePid ==
    /\ lf.mode # "if"
    /\ \E raw \in AllReadings, now \in Times :
           IF ActiveCount(ReadSensors(raw)) = 0
           THEN lf.line_lost_counter < MaxFnLost /\ now = 0 /\ UpdateStep(raw, 0, 0)
           ELSE pid_calls < MaxFnCalls /\ UpdateStep(raw, now, 1)

FnNext == FnUpdateIf \/ FnUpdatePid \/ SetSpeed

SpecFn == FnInit /\ [][FnNext]_vars

----------------------------------------------------------------------------

(* A third specification: the owning controller (src/device/main.py, class
   MediRunnerRobot) driving the line follower.  Its coroutines run on one asyncio
   event loop: each action is the code one coroutine runs between two awaits.
   hw holds the calls update() made and the motor calls of the controller. *)

\* capture_panoramic tasks alive at once
MaxTasks == 1
\* _auto_stop_after tasks alive at once
MaxAutoStops == 1

MainConfigs ==
    [LINE_FOLLOW_MODE : {"if"},
     LINE_FOLLOW_KP : {15},
     LINE_FOLLOW_KI : {0},
     LINE_FOLLOW_KD : {5},
     LINE_FOLLOW_SPEED : {50},
     LINE_FOLLOW_IF_SLIGHT_SPEED : {35},
     LINE_FOLLOW_IF_SHARP_SPEED : {10},
     LINE_LOST_MAX_COUNT : {20},
     TURN_MOTOR_SPEED : {60},
     DEFAULT_MOTOR_SPEED : {70},
     INVERT_MOTOR_CORRECTION : {FALSE},
     INVERT_LINE_SENSORS : {FALSE},
     ENABLE_WEBSOCKET : BOOLEAN,
     ENABLE_PROXIMITY : BOOLEAN,
     ENABLE_BUMP : BOOLEAN]

\* the line under the centre sensor, or no line
MainReadings == { NoLine, Bits(1,1,0,1,1) }

\* MediRunnerRobot.__init__ followed by initialize_hardware: standalone robots
\* start in auto mode, robots with a gateway in manual mode
MainInit ==
    /\ Config \in MainConfigs
    /\ \E now \in Times : lf = construct(Config, now)
    /\ hw = <<>>
    /\ ret = TRUE
    /\ last_op = "init"
    /\ reading = Raw(NoLine)
    /\ reacquired = FALSE
    /\ lost_run = 0
    /\ pid_calls = 0
    /\ epi = NoEpisode
    /\ robot = [mode |-> IF Config.ENABLE_WEBSOCKET THEN "manual" ELSE "auto",
                auto_mode_active |-> ~Config.ENABLE_WEBSOCKET,
                tasks |-> <<>>,
                auto_stops |-> 0]
    /\ ctl = NoControl
    /\ gateway = NoGateway

\* set_mode once past the early return of an unchanged mode
set_mode(self, mode) ==
    [self EXCEPT !.mode = mode, !.auto_mode_active = (mode = "auto")]

\* the command 'auto' from the gateway: set_mode('auto') activates autonomous
\* control and resets the line follower
SetModeAuto ==
    /\ Config.ENABLE_WEBSOCKET
    /\ robot.mode # "auto"
    /\ robot' = set_mode(robot, "auto")
    /\ \E now \in Times : lf' = reset(lf, now)
    /\ hw' = <<>>
    /\ last_op' = "set_mode"
    /\ reacquired' = FALSE
    /\ lost_run' = 0
    /\ epi' = NoEpisode
    /\ ctl' = [fresh_reset |-> TRUE, relinquished |-> FALSE]
    /\ UNCHANGED <<gateway, Config, ret, reading, pid_calls>>

\* the command 'manual': set_mode('manual') deactivates and stops the motors
SetModeManual ==
    /\ Config.ENABLE_WEBSOCKET
    /\ robot.mode # "manual"
    /\ robot' = set_mode(robot, "manual")
    /\ hw' = <<Call("stop", <<>>)>>
    /\ last_op' = "set_mode"
    /\ reacquired' = FALSE
    /\ UNCHANGED <<gateway, Config, lf, ret, reading, lost_run, pid_calls, epi, ctl>>

\* the legacy command 'set_mode', handled in manual mode only, with a mode
\* that is neither 'manual' nor 'auto': set_mode takes its else branch
OtherModes == {"idle"}

SetModeOther ==
    /\ Config.ENABLE_WEBSOCKET
    /\ robot.mode = "manual"
    /\ \E mode \in OtherModes : robot' = set_mode(robot, mode)
    /\ hw' = <<Call("stop", <<>>)>>
    /\ last_op' = "set_mode"
    /\ reacquired' = FALSE
    /\ UNCHANGED <<gateway, Config, lf, ret, reading, lost_run, pid_calls, epi, ctl>>

\* the motor commands of the gateway and the motor call each makes when it
\* is carried out, at the default speeds
MotorCommands == {"forward", "up", "backward", "down", "left", "right", "stop", "set_speed"}

MotorCall(command) ==
    IF command \in {"forward", "up"}
    THEN Call("forward", <<Config.DEFAULT_MOTOR_SPEED * SpeedScale>>)
    ELSE IF command \in {"backward", "down"}
    THEN Call("backward", <<Config.DEFAULT_MOTOR_SPEED * SpeedScale>>)
    ELSE IF command = "left" THEN Call("turn_left", <<Config.TURN_MOTOR_SPEED * SpeedScale>>)
    ELSE IF command = "right" THEN Call("turn_right", <<Config.TURN_MOTOR_SPEED * SpeedScale>>)
    ELSE IF command = "stop" THEN Call("stop", <<>>)
    ELSE Call("set_speed", <<Config.DEFAULT_MOTOR_SPEED * SpeedScale>>)

\* handle_command on a motor command: ignored unless mode is 'manual'
handle_motor_command(self, command) ==
    IF self.mode # "manual" THEN <<>> ELSE <<MotorCall(command)>>

\* a motor command arrives; 'left' and 'right' schedule _auto_stop_after(0.2)
MotorCommand ==
    /\ Config.ENABLE_WEBSOCKET
    /\ \E command \in MotorCommands :
           /\ hw' = handle_motor_command(robot, command)
           /\ IF robot.mode = "manual" /\ command \in {"left", "right"}
              THEN /\ robot.auto_stops < MaxAutoStops
                   /\ robot' = [robot EXCEPT !.auto_stops = @ + 1]
              ELSE robot' = robot
    /\ last_op' = "motor_command"
    /\ reacquired' = FALSE
    /\ UNCHANGED <<gateway, Config, lf, ret, reading, lost_run, pid_calls, epi, ctl>>

\* mutant: the delayed stop does not look at the mode
auto_stop_after_unguarded(self) == <<Call("stop", <<>>)>>

\* _auto_stop_after once its sleep is over: stops the motors in manual mode
auto_stop_after(self) ==
    IF self.mode = "manual" THEN <<Call("stop", <<>>)>> ELSE <<>>

AutoStop ==
    /\ robot.auto_stops > 0
    /\ hw' = auto_stop_after(robot)
    /\ robot' = [robot EXCEPT !.auto_stops = @ - 1]
    /\ last_op' = "auto_stop"
    /\ reacquired' = FALSE
    /\ UNCHANGED <<gateway, Config, lf, ret, reading, lost_run, pid_calls, epi, ctl>>

\* the command 'panoramic': asyncio.create_task(self.capture_panoramic())
PanoramicCommand ==
    /\ Config.ENABLE_WEBSOCKET
    /\ Len(robot.tasks) < MaxTasks
    /\ robot' = [robot EXCEPT
                   !.tasks = Append(@, [started |-> FALSE, was_auto |-> FALSE])]
    /\ hw' = <<>>
    /\ last_op' = "panoramic"
    /\ reacquired' = FALSE
    /\ UNCHANGED <<gateway, Config, lf, ret, reading, lost_run, pid_calls, epi, ctl>>

\* capture_panoramic up to its first await: autonomous driving is paused
PanoramicStart ==
    \E i \in DOMAIN robot.tasks :
        /\ ~robot.tasks[i].started
        /\ robot' = [robot EXCEPT
                       !.tasks[i] = [started |-> TRUE,
                                     was_auto |-> robot.auto_mode_active],
                       !.auto_mode_active = FALSE]
        /\ hw' = <<Call("stop", <<>>)>>
        /\ last_op' = "panoramic_start"
        /\ reacquired' = FALSE
        /\ UNCHANGED <<gateway, Config, lf, ret, reading, lost_run, pid_calls, epi, ctl>>

\* the history after the finally clause of capture_panoramic set
\* auto_mode_active = True: autonomous control is active again
Restored(c) == [c EXCEPT !.relinquished = FALSE]

\* capture_panoramic from its last await on: the finally clause restores
\* auto_mode_active if the capture paused it
PanoramicFinish ==
    \E i \in DOMAIN robot.tasks :
        /\ robot.tasks[i].started
        /\ robot' = [robot EXCEPT
                       !.tasks = SubSeq(@, 1, i - 1) \o SubSeq(@, i + 1, Len(@)),
                       !.auto_mode_active =
                           IF robot.tasks[i].was_auto THEN TRUE ELSE @]
        /\ ctl' = IF robot.tasks[i].was_auto THEN Restored(ctl) ELSE ctl
        /\ hw' = <<>>
        /\ last_op' = "panoramic_finish"
        /\ reacquired' = FALSE
        /\ UNCHANGED <<gateway, Config, lf, ret, reading, lost_run, pid_calls, epi>>

\* one iteration of autonomous_control_loop with autonomous control active
\* stops for an obstacle seen by the proximity sensor
LoopObstacle ==
    /\ robot.auto_mode_active
    /\ Config.ENABLE_PROXIMITY
    /\ hw' = <<Call("stop", <<>>)>>
    /\ last_op' = "obstacle"
    /\ reacquired' = FALSE
    /\ UNCHANGED <<gateway, Config, lf, ret, reading, lost_run, pid_calls, epi, robot, ctl>>

\* mutant: the loop leaves auto_mode_active set
Relinquish_mode_only(self) == [self EXCEPT !.mode = "manual"]

\* self.auto_mode_active = False; self.mode = 'manual'
Relinquish(self) == [self EXCEPT !.auto_mode_active = FALSE, !.mode = "manual"]

\* the iteration finds the bump sensor pressed
LoopCollision ==
    /\ robot.auto_mode_active
    /\ Config.ENABLE_BUMP
    /\ robot' = Relinquish(robot)
    /\ hw' = <<Call("stop", <<>>)>>
    /\ last_op' = "collision"
    /\ reacquired' = FALSE
    /\ UNCHANGED <<gateway, Config, lf, ret, reading, lost_run, pid_calls, epi, ctl>>

\* the iteration calls line_follower.update() and gives autonomous control
\* up if it returns False
LoopUpdate ==
    /\ robot.auto_mode_active
    /\ \E s \in MainReadings :
           /\ s = NoLine => lf.line_lost_counter < MaxLost
           /\ UpdateCore(Raw(s), 0, 0)
    /\ robot' = IF ret' THEN robot ELSE Relinquish(robot)
    /\ ctl' = [fresh_reset |-> FALSE, relinquished |-> ~ret']

\* a call of the iteration raises before update() changed anything: the
\* handler clears auto_mode_active, keeps mode and stops the motors
LoopException ==
    /\ robot.auto_mode_active
    /\ robot' = [robot EXCEPT !.auto_mode_active = FALSE]
    /\ hw' = <<Call("stop", <<>>)>>
    /\ last_op' = "exception"
    /\ reacquired' = FALSE
    /\ UNCHANGED <<gateway, Config, lf, ret, reading, lost_run, pid_calls, epi, ctl>>

MainNext ==
    \/ SetModeAuto \/ SetModeManual \/ SetModeOther \/ MotorCommand \/ AutoStop
    \/ PanoramicCommand \/ PanoramicStart
    \/ PanoramicFinish \/ LoopObstacle \/ LoopCollision \/ LoopUpdate
    \/ LoopException

SpecMain == MainInit /\ [][MainNext]_vars

----------------------------------------------------------------------------

(* A fourth specification: the gateway's connection manager
   (src/gateway/app/connection_manager.py, class ConnectionManager) under the
   robot websocket endpoint (src/gateway/app/websockets.py, robot_ws).  Every
   robot websocket has its own robot_ws handler coroutine on the one asyncio
   event loop of the gateway; each action is the code a handler runs between
   two awaits, or a peer closing its end.  No console is connected: the lists
   of console_sockets stay empty and broadcast_to_consoles returns at its
   "No consoles connected" branch without awaiting. *)

\* robot websockets the gateway accepts in one run
MaxConns == 3

\* the robotId query parameters the robots connect with
RobotIds == {"robot-1", "robot-2"}

\* the websocket objects, in the order in which they connect
Sockets == 1..MaxConns

\* ConnectionManager.__init__: both dictionaries empty.  A dictionary is a
\* function on the set of its keys.
ConnectionManager_init == [robot_sockets |-> [id \in {} |-> 0],
                           console_sockets |-> [id \in {} |-> <<>>]]

\* dict.setdefault(key, default) and dict.pop(key, None)
setdefault(dict, key, default) ==
    IF key \in DOMAIN dict THEN dict
    ELSE [k \in DOMAIN dict \cup {key} |-> IF k = key THEN default ELSE dict[k]]
pop(dict, key) == [k \in DOMAIN dict \ {key} |-> dict[k]]

\* ConnectionManager.connect_robot: the accepted socket replaces whatever is
\* registered for the id
connect_robot(self, robot_id, websocket) ==
    [self EXCEPT
        !.robot_sockets = [k \in DOMAIN self.robot_sockets \cup {robot_id} |->
                              IF k = robot_id THEN websocket ELSE self.robot_sockets[k]],
        !.console_sockets = setdefault(self.console_sockets, robot_id, <<>>)]

\* ConnectionManager.disconnect_robot: the entry of the id is removed, whichever
\* socket it holds
disconnect_robot(self, robot_id) ==
    [self EXCEPT !.robot_sockets = pop(self.robot_sockets, robot_id)]

\* ConnectionManager.get_robot_status(robot_id)["robot_connected"]
robot_connected(self, robot_id) == robot_id \in DOMAIN self.robot_sockets

\* where a robot_ws handler stands: its websocket has not connected yet; it
\* waits in receive_text with the peer connected; it still waits there but the
\* peer has gone; it has returned
NotConnected == [robotId |-> "", at |-> "new"]

GatewayInit ==
    /\ Config \in { c \in MainConfigs :
                        c.ENABLE_WEBSOCKET /\ c.ENABLE_PROXIMITY /\ c.ENABLE_BUMP }
    /\ lf = construct(Config, 0)
    /\ hw = <<>>
    /\ ret = TRUE
    /\ last_op = "init"
    /\ reading = Raw(NoLine)
    /\ reacquired = FALSE
    /\ lost_run = 0
    /\ pid_calls = 0
    /\ epi = NoEpisode
    /\ robot = [mode |-> "manual", auto_mode_active |-> FALSE,
                tasks |-> <<>>, auto_stops |-> 0]
    /\ ctl = NoControl
    /\ gateway = [robot_sockets |-> ConnectionManager_init.robot_sockets,
                  console_sockets |-> ConnectionManager_init.console_sockets,
                  conns |-> [ws \in Sockets |-> NotConnected]]

\* robot_ws up to its receive loop: a robot connects with some robotId, the
\* handler registers the socket and waits for the first message
RobotConnect ==
    /\ \E ws \in Sockets, id \in RobotIds :
        /\ gateway.conns[ws].at = "new"
        /\ \A earlier \in 1..(ws - 1) : gateway.conns[earlier].at # "new"
        /\ gateway' = [connect_robot(gateway, id, ws) EXCEPT
                          !.conns[ws] = [robotId |-> id, at |-> "receive"]]
    /\ UNCHANGED <<Config, lf, hw, ret, last_op, reading, reacquired, lost_run,
                   pid_calls, epi, robot, ctl>>

\* the robot closes its end of a websocket, or its network goes away; the
\* handler is still suspended in receive_text
RobotGone ==
    /\ \E ws \in Sockets :
        /\ gateway.conns[ws].at = "receive"
        /\ gateway' = [gateway EXCEPT !.conns[ws].at = "gone"]
    /\ UNCHANGED <<Config, lf, hw, ret, last_op, reading, reacquired, lost_run,
                   pid_calls, epi, robot, ctl>>

\* robot_ws resumes with WebSocketDisconnect (or another exception) raised by
\* receive_text: disconnect_robot(robotId), then the handler returns
RobotWsDisconnect ==
    /\ \E ws \in Sockets :
        /\ gateway.conns[ws].at = "gone"
        /\ gateway' = [disconnect_robot(gateway, gateway.conns[ws].robotId) EXCEPT
                          !.conns[ws].at = "returned"]
    /\ UNCHANGED <<Config, lf, hw, ret, last_op, reading, reacquired, lost_run,
                   pid_calls, epi, robot, ctl>>

\* robot_ws resumes with the 120 s timeout and its ping cannot be sent: the
\* loop is left with break and the handler returns without disconnect_robot
RobotWsDead ==
    /\ \E ws \in Sockets :
        /\ gateway.conns[ws].at = "gone"
        /\ gateway' = [gateway EXCEPT !.conns[ws].at = "returned"]
    /\ UNCHANGED <<Config, lf, hw, ret, last_op, reading, reacquired, lost_run,
                   pid_calls, epi, robot, ctl>>

GatewayNext == RobotConnect \/ RobotGone \/ RobotWsDisconnect \/ RobotWsDead

SpecGateway == GatewayInit /\ [][GatewayNext]_vars

----------------------------------------------------------------------------

Next == UpdateIf \/ UpdatePidLost \/ UpdatePidSeen \/ Reset \/ SetSpeed \/ SetPidGains

Spec == Init /\ [][Next]_vars

----------------------------------------------------------------------------
(* Properties *)

\* the normalised reading of the last update(), and whether it saw the line
LastSensors == ReadSensors(reading)
LineSeen == last_op = "update" /\ ActiveCount(LastSensors) > 0
LineLost == last_op = "update" /\ ActiveCount(LastSensors) = 0

\* the calls of the last operation that command the motors
MotorCalls == {i \in DOMAIN hw : hw[i].op \in MotorOps}

InRange(x, lo, hi) == lo <= x /\ x <= hi

(***************************************************************************)
(* C1.  On every update() tick that sees the line, in both strategies and  *)
(* for every base_speed reached by construction or set_speed and either    *)
(* polarity, both wheel speeds passed to motors.set_motor_speeds lie in    *)
(* [min_motor_speed, 100].                                                 *)
(***************************************************************************)
C1_WheelSpeedsInRange ==
    LineSeen =>
        \A i \in DOMAIN hw :
            hw[i].op = "set_motor_speeds" =>
                /\ InRange(hw[i].args[1], lf.min_motor_speed, 100 * SpeedScale)
                /\ InRange(hw[i].args[2], lf.min_motor_speed, 100 * SpeedScale)

\* the same statement for the base speeds whose floor 0.25 * base_speed does
\* not exceed 100; it holds, and the clamp is exercised at both ends
C1_WheelSpeedsInRangeUpTo400 ==
    lf.base_speed <= 400 * SpeedScale => C1_WheelSpeedsInRange

C1_ClampedAtBothEnds ==
    /\ LineSeen
    /\ lf.mode # "if"
    /\ hw[2].args \in { <<lf.min_motor_speed, 100 * SpeedScale>>,
                        <<100 * SpeedScale, lf.min_motor_speed>> }

(***************************************************************************)
(* C2.  The recovery phase boundaries are exact: on a lost tick the        *)
(* command is forward creep while the counter is 1..8, rotation in          *)
(* search_direction while it is 9..35, rotation in the opposite direction   *)
(* while it is 36..70, and stop once it is above 70.                        *)
(***************************************************************************)
Turn(dir) == IF dir = "left" THEN "turn_left" ELSE "turn_right"
Opposite(dir) == IF dir = "left" THEN "right" ELSE "left"

C2_PhaseBoundaries ==
    LineLost =>
        LET c == lf.line_lost_counter
            cmd == hw[Len(hw)].op
        IN /\ c \in 1..8 => cmd = "forward"
           /\ c \in 9..35 => cmd = Turn(lf.search_direction)
           /\ c \in 36..70 => cmd = Turn(Opposite(lf.search_direction))
           /\ c > 70 => cmd = "stop"
           /\ c >= 1

\* the last boundary is crossed: tick 71 of an episode has commanded stop
C2_Witness ==
    /\ LineLost
    /\ lf.line_lost_counter = 71
    /\ hw[Len(hw)].op = "stop"

(***************************************************************************)
(* C3.  update() returns false exactly on the ticks that are the 71st or   *)
(* later consecutive tick with no sensor on the line (counted since the     *)
(* line was last seen, construction or reset()), and such a tick issues     *)
(* motors.stop(); every other tick returns true.                            *)
(***************************************************************************)
C3_FalseExactlyFrom71 ==
    last_op = "update" =>
        /\ ret = FALSE <=> (LineLost /\ lost_run >= 71)
        /\ ret = FALSE => (MotorCalls # {} /\ \A i \in MotorCalls : hw[i].op = "stop")

\* the first false return, on the 71st consecutive tick without the line
C3_Witness ==
    /\ last_op = "update"
    /\ lost_run = 71
    /\ ret = FALSE
    /\ hw[Len(hw)].op = "stop"

(***************************************************************************)
(* C4.  On any tick in which the line is seen, whatever line_lost_counter   *)
(* was before the tick, the counter is 0 at the end of the tick, the active *)
(* strategy has computed and applied a tracking command in that tick, and   *)
(* update() returns true.                                                   *)
(***************************************************************************)
C4_ReacquireSameTick ==
    [][ LineSeen' =>
          /\ lf'.line_lost_counter = 0
          /\ ret' = TRUE
          /\ Len(hw') = 2 /\ hw'[2].op = "set_motor_speeds"
          /\ lf.mode = "if" =>
                /\ hw'[2].args = calculate_if_correction(lf', ReadSensors(reading'))
                /\ pid_calls' = pid_calls
          /\ lf.mode # "if" =>
                /\ pid_calls' = pid_calls + 1
                /\ lf'.previous_error = get_line_error(ReadSensors(reading')).value
                /\ hw'[2] = apply_correction(lf', lf'.last_correction)
      ]_vars

\* a tick that found the line again after the search had been given up
C4_Witness ==
    /\ LineSeen
    /\ reacquired
    /\ lf.line_lost_counter = 0
    /\ lf.search_direction = "left"
    /\ hw[2].op = "set_motor_speeds"

(***************************************************************************)
(* C5.  line_lost_counter increases by exactly 1 on every tick with no      *)
(* sensor on the line (with no cap, also after the give-up), is 0 at the    *)
(* end of every tick that sees the line, is set to 0 by reset(), and        *)
(* changes in no other way.                                                 *)
(***************************************************************************)
C5_CounterSteps ==
    [][ /\ LineLost' => lf'.line_lost_counter = lf.line_lost_counter + 1
        /\ LineSeen' => lf'.line_lost_counter = 0
        /\ last_op' = "reset" => lf'.line_lost_counter = 0
        /\ last_op' \in {"set_speed", "set_pid_gains"} =>
               lf'.line_lost_counter = lf.line_lost_counter
      ]_vars

\* the counter has gone on counting after the give-up
C5_Witness ==
    /\ LineLost
    /\ lf.line_lost_counter = 72
    /\ ret = FALSE

(***************************************************************************)
(* C6.  After any sequence of PID computations (any error, any elapsed      *)
(* time: zero, negative, long), interleaved with reset(), set_speed() and   *)
(* set_pid_gains(), the integral accumulator lies in [-10, 10].             *)
(***************************************************************************)
C6_IntegralBounded ==
    InRange(lf.integral, -10 * IntScale, 10 * IntScale)

\* a computation over a long gap has driven the accumulator onto the clamp
C6_Witness ==
    /\ LineSeen
    /\ pid_calls > 0
    /\ lf.integral = 10 * IntScale

(***************************************************************************)
(* C7.  On the first tick of a lost episode (the counter becomes 1)         *)
(* search_direction is 'left' if last_known_error < -0.3, 'right' if        *)
(* last_known_error > 0.3, and otherwise last_direction, with 'right'       *)
(* when last_direction is 'center'.                                         *)
(***************************************************************************)
C7_SearchDirectionAtEntry ==
    (LineLost /\ lf.line_lost_counter = 1) =>
        LET e == lf.last_known_error
        IN /\ 10 * e < -3 * ErrScale => lf.search_direction = "left"
           /\ 10 * e > 3 * ErrScale => lf.search_direction = "right"
           /\ (10 * e >= -3 * ErrScale /\ 10 * e <= 3 * ErrScale) =>
                  lf.search_direction =
                      IF lf.last_direction = "center" THEN "right" ELSE lf.last_direction

\* an episode that started with the line last seen to the left
C7_Witness ==
    /\ LineLost
    /\ lf.line_lost_counter = 1
    /\ 10 * lf.last_known_error < -3 * ErrScale
    /\ lf.search_direction = "left"

(***************************************************************************)
(* C8.  search_direction is fixed for the duration of one lost episode: it  *)
(* is assigned only on the tick where the counter becomes 1, so ticks       *)
(* 9..35 rotate in the direction held before the tick and ticks 36..70      *)
(* rotate in the opposite one.                                              *)
(***************************************************************************)
C8_DirectionFixedInEpisode ==
    [][ /\ lf'.search_direction # lf.search_direction =>
               (LineLost' /\ lf'.line_lost_counter = 1)
        /\ (LineLost' /\ lf'.line_lost_counter \in 9..35) =>
               hw'[Len(hw')].op = Turn(lf.search_direction)
        /\ (LineLost' /\ lf'.line_lost_counter \in 36..70) =>
               hw'[Len(hw')].op = Turn(Opposite(lf.search_direction))
      ]_vars

\* direction 'left' resolved at tick 1 has become turn_right on tick 36
C8_Witness ==
    /\ LineLost
    /\ lost_run = 36
    /\ lf.line_lost_counter = 36
    /\ lf.search_direction = "left"
    /\ hw[Len(hw)].op = "turn_right"

(***************************************************************************)
(* C9.  After reset(), following any sequence of update(), set_speed() and  *)
(* set_pid_gains() calls, previous_error, integral, last_correction,        *)
(* line_lost_counter, last_known_error and last_direction have the value    *)
(* of a freshly constructed instance and only the timestamp may differ;     *)
(* search_direction is not touched by reset() and keeps the value the last  *)
(* lost episode gave it (gains and speeds keep their current values).       *)
(***************************************************************************)
Fresh(now) == construct(Config, now)

C9_ResetRestoresAllButSearchDirection ==
    [][ last_op' = "reset" =>
          lf' = [Fresh(lf'.last_time) EXCEPT
                     !.search_direction = lf.search_direction,
                     !.kp = lf.kp,
                     !.ki = lf.ki,
                     !.kd = lf.kd,
                     !.base_speed = lf.base_speed,
                     !.min_motor_speed = lf.min_motor_speed]
      ]_vars

\* C9 as stated: every PID and recovery variable, search_direction included,
\* has the value of a fresh instance after reset()
C9_ResetRestoresEverything ==
    last_op = "reset" =>
        /\ lf.previous_error = Fresh(0).previous_error
        /\ lf.integral = Fresh(0).integral
        /\ lf.last_correction = Fresh(0).last_correction
        /\ lf.line_lost_counter = Fresh(0).line_lost_counter
        /\ lf.search_direction = Fresh(0).search_direction
        /\ lf.last_known_error = Fresh(0).last_known_error
        /\ lf.last_direction = Fresh(0).last_direction

\* a reset after PID tracking and a lost episode that searched to the left
C9_Witness ==
    /\ last_op = "reset"
    /\ pid_calls > 0
    /\ lf.search_direction = "left"
    /\ lf.integral = 0
    /\ lf.line_lost_counter = 0

(***************************************************************************)
(* C10.  Each update() issues exactly one motor command (one of             *)
(* set_motor_speeds, forward, turn_left, turn_right, stop, and only once)   *)
(* and the sensors are read before it, for every sensor vector and every    *)
(* controller state in both strategies.                                     *)
(***************************************************************************)
C10_OneMotorCommandPerTick ==
    last_op = "update" =>
        /\ Cardinality(MotorCalls) = 1
        /\ \A i \in DOMAIN hw : hw[i].op \in MotorOps \cup {"read_line_sensors"}
        /\ \A i \in MotorCalls :
               \E j \in 1..(i - 1) : hw[j] = ReadCall

\* ticks of every kind have happened: here one that gave up with stop
C10_Witness ==
    /\ last_op = "update"
    /\ Len(hw) = 2
    /\ hw[1] = ReadCall
    /\ hw[2].op = "stop"

----------------------------------------------------------------------------
(* Properties of the estimator and the pattern table, over SpecFn *)

\* the positions on the line in the last tick's normalised reading
ActiveSet == {k \in Names : LastSensors[k] = 0}

\* the weight of each position as the design states it
PositionWeight ==
    [left2 |-> -2, left1 |-> -1, center |-> 0, right1 |-> 1, right2 |-> 2]

ActiveWeightSum ==
    (IF "left2" \in ActiveSet THEN PositionWeight["left2"] ELSE 0)
    + (IF "left1" \in ActiveSet THEN PositionWeight["left1"] ELSE 0)
    + (IF "center" \in ActiveSet THEN PositionWeight["center"] ELSE 0)
    + (IF "right1" \in ActiveSet THEN PositionWeight["right1"] ELSE 0)
    + (IF "right2" \in ActiveSet THEN PositionWeight["right2"] ELSE 0)

\* a tick of the PID strategy, and one in which get_line_error returned a
\* number: _update_pid stores it in last_known_error and previous_error and
\* commands the wheels
PidTick == last_op = "update" /\ lf.mode # "if"
GotError == PidTick /\ hw[Len(hw)].op = "set_motor_speeds"

(***************************************************************************)
(* C11.  For every sensor vector with exactly one active position p,        *)
(* get_line_error returns exactly the weight of p: -2, -1, 0, 1 or 2 for    *)
(* far-left, near-left, center, near-right, far-right.                      *)
(***************************************************************************)
C11_SingleSensorError ==
    PidTick =>
        \A p \in Names :
            ActiveSet = {p} =>
                /\ GotError
                /\ lf.last_known_error = PositionWeight[p] * ErrScale
                /\ lf.previous_error = PositionWeight[p] * ErrScale

\* only the far-left sensor on the line, read through inverted GPIO levels
C11_Witness ==
    /\ GotError
    /\ Config.INVERT_LINE_SENSORS
    /\ ActiveSet = {"left2"}
    /\ lf.last_known_error = -2 * ErrScale

(***************************************************************************)
(* C12.  For all 32 sensor vectors get_line_error returns None if and only  *)
(* if no position is active, and otherwise the sum of the active            *)
(* positions' weights divided by their number, a value in [-2.0, 2.0].      *)
(***************************************************************************)
C12_ErrorIsWeightedMean ==
    PidTick =>
        /\ ~GotError <=> ActiveSet = {}
        /\ ~GotError => lf.line_lost_counter > 0
        /\ GotError =>
              /\ lf.last_known_error * Cardinality(ActiveSet)
                     = ActiveWeightSum * ErrScale
              /\ InRange(lf.last_known_error, -2 * ErrScale, 2 * ErrScale)

\* far-left, center and near-right on the line: the error is -1/3
C12_Witness ==
    /\ GotError
    /\ ActiveSet = {"left2", "center", "right1"}
    /\ 3 * lf.last_known_error = -ErrScale

\* a tick of the rule-based strategy with the line in view: the pair that
\* calculate_if_correction returned is the argument of set_motor_speeds
IfTick == last_op = "update" /\ lf.mode = "if" /\ ActiveSet # {}

(***************************************************************************)
(* C13.  For every sensor vector with four or five active positions         *)
(* detect_intersection is true and the pattern table selects (base_speed,   *)
(* base_speed), whichever positions are active; what the rule-based         *)
(* strategy returns is that pair clamped into [min_motor_speed, 100], so    *)
(* it is (base_speed, base_speed) when 15 <= base_speed <= 100 and          *)
(* (min_motor_speed, min_motor_speed) otherwise.  Vectors with three or     *)
(* fewer active positions are not intersections.                            *)
(***************************************************************************)
C13_IntersectionStraightClamped ==
    IfTick =>
        LET v == Max(lf.min_motor_speed, Min(100 * SpeedScale, lf.base_speed))
        IN /\ detect_intersection(LastSensors) <=> Cardinality(ActiveSet) >= 4
           /\ Cardinality(ActiveSet) >= 4 =>
                 /\ IfPattern(lf, LastSensors) = <<lf.base_speed, lf.base_speed>>
                 /\ hw[2].args = <<v, v>>
                 /\ InRange(lf.base_speed, 15 * SpeedScale, 100 * SpeedScale) =>
                        hw[2].args = <<lf.base_speed, lf.base_speed>>

\* C13 as stated: the returned pair is (base_speed, base_speed) itself
C13_IntersectionStraight ==
    IfTick =>
        /\ detect_intersection(LastSensors) <=> Cardinality(ActiveSet) >= 4
        /\ Cardinality(ActiveSet) >= 4 =>
               hw[2].args = <<lf.base_speed, lf.base_speed>>

\* four positions active that match no explicit pattern, base_speed 10:
\* both wheels are commanded at min_motor_speed 15
C13_Witness ==
    /\ IfTick
    /\ ActiveSet = {"left2", "left1", "center", "right2"}
    /\ lf.base_speed = 10 * SpeedScale
    /\ hw[2].args = <<15 * SpeedScale, 15 * SpeedScale>>

\* what calculate_if_correction makes of a pattern-table pair: the swap under
\* INVERT_MOTOR_CORRECTION, then each wheel clamped into [min_motor_speed, 100]
Commanded(pair) ==
    LET q == IF Config.INVERT_MOTOR_CORRECTION THEN <<pair[2], pair[1]>> ELSE pair
    IN <<Max(lf.min_motor_speed, Min(100 * SpeedScale, q[1])),
         Max(lf.min_motor_speed, Min(100 * SpeedScale, q[2]))>>

\* the pattern table selected pair for the last reading and the wheels were
\* commanded accordingly
Selected(pair) ==
    /\ IfPattern(lf, LastSensors) = pair
    /\ hw[2].args = Commanded(pair)

(***************************************************************************)
(* C14.  In the rule-based strategy, before inversion and clamping:         *)
(* only-center yields (base, base); center plus exactly one near sensor     *)
(* and no far sensor yields the outer wheel at base and the wheel on the    *)
(* side of the active near sensor at the gentle speed; a single near        *)
(* sensor alone yields the same pair as center plus that near sensor.       *)
(***************************************************************************)
C14_GentleRules ==
    IfTick =>
        LET base == lf.base_speed
            slight == lf.if_slight_speed
        IN /\ ActiveSet = {"center"} => Selected(<<base, base>>)
           /\ ActiveSet = {"center", "left1"} => Selected(<<slight, base>>)
           /\ ActiveSet = {"center", "right1"} => Selected(<<base, slight>>)
           /\ ActiveSet \in {{"left1"}, {"right1"}} =>
                  Selected(IfPattern(lf, [LastSensors EXCEPT !.center = 0]))
           /\ ActiveSet = {"left1"} => Selected(<<slight, base>>)
           /\ ActiveSet = {"right1"} => Selected(<<base, slight>>)

\* near-left alone, default speeds: left wheel at 35, right wheel at 50
C14_Witness ==
    /\ IfTick
    /\ ActiveSet = {"left1"}
    /\ ~Config.INVERT_MOTOR_CORRECTION
    /\ hw[2].args = <<35 * SpeedScale, 50 * SpeedScale>>

\* exactly one far sensor on the line, and fewer than four positions active
FarLeftOnly ==
    "left2" \in ActiveSet /\ "right2" \notin ActiveSet /\ Cardinality(ActiveSet) < 4
FarRightOnly ==
    "right2" \in ActiveSet /\ "left2" \notin ActiveSet /\ Cardinality(ActiveSet) < 4

(***************************************************************************)
(* C15.  In the rule-based strategy, for every sensor vector with fewer     *)
(* than four active positions in which exactly one far sensor is on: if     *)
(* the near sensor of the opposite side is off, the result is the sharp     *)
(* correction toward the far sensor's side (the wheel on that side gets     *)
(* the sharp speed, the other one base); if the near sensor of the          *)
(* opposite side is on as well, no pattern matches and the result is the    *)
(* fallback pair (base, base).                                              *)
(***************************************************************************)
C15_FarSensorSharpUnlessOppositeNear ==
    IfTick =>
        LET base == lf.base_speed
            sharp == lf.if_sharp_speed
        IN /\ (FarLeftOnly /\ "right1" \notin ActiveSet) => Selected(<<sharp, base>>)
           /\ (FarRightOnly /\ "left1" \notin ActiveSet) => Selected(<<base, sharp>>)
           /\ (FarLeftOnly /\ "right1" \in ActiveSet) => Selected(<<base, base>>)
           /\ (FarRightOnly /\ "left1" \in ActiveSet) => Selected(<<base, base>>)

\* C15 as stated: one far sensor on always gives the sharp correction
C15_FarSensorAlwaysSharp ==
    IfTick =>
        /\ FarLeftOnly => Selected(<<lf.if_sharp_speed, lf.base_speed>>)
        /\ FarRightOnly => Selected(<<lf.base_speed, lf.if_sharp_speed>>)

\* far-left with center: sharp left, the left wheel held at min_motor_speed
C15_Witness ==
    /\ IfTick
    /\ ActiveSet = {"left2", "center"}
    /\ ~Config.INVERT_MOTOR_CORRECTION
    /\ lf.base_speed = 50 * SpeedScale
    /\ hw[2].args = <<15 * SpeedScale, 50 * SpeedScale>>

\* the patterns of the sharp rows of the table
SharpLeft == {"left2"} \subseteq ActiveSet /\ ActiveSet \subseteq {"left2", "left1", "center"}
SharpRight == {"right2"} \subseteq ActiveSet /\ ActiveSet \subseteq {"right2", "right1", "center"}

(***************************************************************************)
(* C16.  In a sharp correction of the rule-based strategy the outer wheel   *)
(* (opposite the active far sensor) is commanded at base_speed itself, not  *)
(* above it, and the inner wheel at the configured sharp speed (a speed,    *)
(* not an offset), each clamped into [min_motor_speed, 100]; the inner      *)
(* wheel is the slower one whenever the sharp speed is below base_speed.    *)
(***************************************************************************)
C16_SharpOuterAtBase ==
    (IfTick /\ (SharpLeft \/ SharpRight)) =>
        LET outer == IF SharpLeft = Config.INVERT_MOTOR_CORRECTION THEN 1 ELSE 2
            inner == 3 - outer
            cmd == hw[2].args
        IN /\ cmd[outer] = Max(lf.min_motor_speed, Min(100 * SpeedScale, lf.base_speed))
           /\ cmd[inner] = Max(lf.min_motor_speed, Min(100 * SpeedScale, lf.if_sharp_speed))
           /\ cmd[outer] <= Max(lf.min_motor_speed, lf.base_speed)
           /\ lf.if_sharp_speed < lf.base_speed => cmd[inner] <= cmd[outer]

\* C16 as stated: the outer wheel is boosted above base_speed by the sharp
\* offset and the inner wheel is below base_speed
C16_SharpOuterBoosted ==
    (IfTick /\ (SharpLeft \/ SharpRight)) =>
        LET outer == IF SharpLeft THEN 2 ELSE 1
            inner == 3 - outer
            pair == IfPattern(lf, LastSensors)
        IN /\ pair[outer] = lf.base_speed + lf.if_sharp_speed
           /\ pair[outer] > lf.base_speed
           /\ pair[inner] < lf.base_speed

\* far-right alone with inverted polarity: the left wheel is the inner one
C16_Witness ==
    /\ IfTick
    /\ ActiveSet = {"right2"}
    /\ Config.INVERT_MOTOR_CORRECTION
    /\ lf.base_speed = 50 * SpeedScale
    /\ hw[2].args = <<15 * SpeedScale, 50 * SpeedScale>>

----------------------------------------------------------------------------
(* Properties of the command mapping, the PID timing and the configuration *)

(***************************************************************************)
(* C17.  Polarity inversion is a pure left/right swap in both strategies:   *)
(* the command a tick issued is exactly the command the same correction     *)
(* (PID) or the same sensor vector (rule-based), with the same base_speed,  *)
(* produces under the opposite setting of INVERT_MOTOR_CORRECTION, with     *)
(* left and right exchanged, clamping included.                             *)
(***************************************************************************)
C17_InversionIsSwap ==
    LineSeen =>
        LET other == ~Config.INVERT_MOTOR_CORRECTION
            alt == IF lf.mode = "if"
                   THEN if_correction_with(lf, LastSensors, other)
                   ELSE apply_correction_with(lf, lf.last_correction, other).args
        IN hw[2].args = <<alt[2], alt[1]>>

\* an inverted positive PID correction large enough for both clamps to act
C17_Witness ==
    /\ LineSeen
    /\ lf.mode # "if"
    /\ Config.INVERT_MOTOR_CORRECTION
    /\ lf.last_correction > 0
    /\ hw[2].args = <<lf.min_motor_speed, 100 * SpeedScale>>

(***************************************************************************)
(* C18.  A PID computation whose measured dt (now - last_time) is zero or   *)
(* negative uses dt = 0.01 s: it leaves previous_error, integral,           *)
(* last_time and last_correction exactly as a computation made 10 ms after  *)
(* the previous one would, with previous_error the new error and last_time  *)
(* the new clock reading.                                                   *)
(***************************************************************************)
C18_NonPositiveDtFloored ==
    [][ (LineSeen' /\ lf.mode # "if" /\ lf'.last_time <= lf.last_time) =>
          LET now == lf'.last_time
              error == lf'.last_known_error
              r == calculate_pid_correction(
                       [lf EXCEPT !.last_time = now - 10], error, now)
          IN /\ lf'.previous_error = error
             /\ lf'.integral = r.self.integral
             /\ lf'.last_correction = r.correction
             /\ lf'.integral =
                    Max(-10 * IntScale, Min(10 * IntScale, lf.integral + 10 * error))
             /\ hw'[2] = apply_correction(lf', r.correction)
      ]_vars

\* the clock read 0 again (or went back to 0) at a computation with error
\* -0.5: the integral moved by -0.5 * 0.01
C18_Witness ==
    /\ LineSeen
    /\ lf.mode # "if"
    /\ pid_calls = 1
    /\ lf.last_time = 0
    /\ lf.previous_error * 2 = -ErrScale
    /\ lf.integral * 2 = -ErrScale * 10

(***************************************************************************)
(* C19.  Constructing the controller with a base_speed outside (0, 100]     *)
(* fails at construction time, so no update() tick is ever processed under  *)
(* such a configuration.                                                    *)
(***************************************************************************)
C19_NoTickUnderInvalidSpeed ==
    last_op = "update" =>
        (Config.LINE_FOLLOW_SPEED > 0 /\ Config.LINE_FOLLOW_SPEED <= 100)

\* the GPIO levels of the last tick after the configured inversion
Normalized ==
    [k \in Names |-> IF Config.INVERT_LINE_SENSORS THEN 1 - reading[k] ELSE reading[k]]

\* the tick took the line-lost path: its motor command is a recovery command
TookLostPath == last_op = "update" /\ hw[Len(hw)].op # "set_motor_speeds"

(***************************************************************************)
(* C20.  The error estimator and the orchestrator treat a normalized        *)
(* sensor value (after the configured inversion) of 0 as 'on the line': a   *)
(* position counts towards active_count exactly when its normalized value   *)
(* is 0, and the line is reported lost exactly when all five normalized     *)
(* values are 1.                                                            *)
(***************************************************************************)
C20_ZeroMeansOnLine ==
    last_op = "update" =>
        LET zeros == {k \in Names : Normalized[k] = 0}
            sum == (IF "left2" \in zeros THEN -2 ELSE 0)
                   + (IF "left1" \in zeros THEN -1 ELSE 0)
                   + (IF "right1" \in zeros THEN 1 ELSE 0)
                   + (IF "right2" \in zeros THEN 2 ELSE 0)
        IN /\ TookLostPath <=> \A k \in Names : Normalized[k] = 1
           /\ (lf.mode # "if" /\ ~TookLostPath) =>
                  lf.last_known_error * Cardinality(zeros) = sum * ErrScale

\* C20 as stated: 0 is 'not on line', so the line is lost exactly when all
\* five normalized values are 0
C20_ZeroMeansOffLine ==
    last_op = "update" =>
        (TookLostPath <=> \A k \in Names : Normalized[k] = 0)

\* inverted sensors reading 0 everywhere: every normalized value is 1 and the
\* rule-based tick starts a lost episode
C20_Witness ==
    /\ last_op = "update"
    /\ lf.mode = "if"
    /\ Config.INVERT_LINE_SENSORS
    /\ \A k \in Names : reading[k] = 0
    /\ lf.line_lost_counter = 1
    /\ hw[2].op = "forward"

(***************************************************************************)
(* C21.  In PID mode, with the PID memory as the constructor and reset()   *)
(* leave it (previous_error, integral and last_correction all zero), a     *)
(* tick with only the centre sensor on the line computes error 0 and       *)
(* correction 0, leaves that memory zero, so that any number of such ticks *)
(* in a row do the same, and commands both wheels at base_speed clamped to *)
(* [min_motor_speed, 100], for every gain setting; set_speed and           *)
(* set_pid_gains leave the memory alone.                                   *)
(***************************************************************************)
PidMemoryClear(self) ==
    self.previous_error = 0 /\ self.integral = 0 /\ self.last_correction = 0

CenterOnly == last_op = "update" /\ ActiveSet = {"center"}

C21_CenterTickStraightClamped ==
    /\ [](last_op \in {"init", "reset"} => PidMemoryClear(lf))
    /\ [][(PidMemoryClear(lf) /\ last_op' \in {"set_speed", "set_pid_gains"})
             => PidMemoryClear(lf')]_vars
    /\ [][(lf.mode # "if" /\ PidMemoryClear(lf) /\ CenterOnly')
             => /\ PidMemoryClear(lf')
                /\ lf'.last_known_error = 0
                /\ hw'[Len(hw')] =
                       Call("set_motor_speeds",
                            << Max(lf.min_motor_speed, Min(100 * SpeedScale, lf.base_speed)),
                               Max(lf.min_motor_speed, Min(100 * SpeedScale, lf.base_speed)) >>)]_vars

\* the statement with the pair exactly (base_speed, base_speed): violated
\* when base_speed is below the floor of 15
C21_CenterTickStraightExact ==
    [][(lf.mode # "if" /\ PidMemoryClear(lf) /\ CenterOnly')
          => /\ PidMemoryClear(lf')
             /\ hw'[Len(hw')] =
                    Call("set_motor_speeds", <<lf.base_speed, lf.base_speed>>)]_vars

\* the second centre tick in a row of a controller built with
\* LINE_FOLLOW_SPEED = 10 and given an integral gain: both wheels at the floor
C21_Witness ==
    /\ lf.mode # "if"
    /\ CenterOnly
    /\ PidMemoryClear(lf)
    /\ pid_calls >= 2
    /\ lf.ki > 0
    /\ lf.base_speed = 10 * SpeedScale
    /\ hw[Len(hw)].args = <<15 * SpeedScale, 15 * SpeedScale>>

(***************************************************************************)
(* C22.  In PID mode without polarity inversion and with kp > 0, ki >= 0,  *)
(* kd >= 0, a tick with only the far-right sensor on the line (error +2)   *)
(* that starts with last_correction >= 0 and integral >= 0 (as after       *)
(* construction or reset) computes a positive correction and commands      *)
(* left >= right >= min_motor_speed, with left > right whenever            *)
(* base_speed + correction exceeds min_motor_speed.                        *)
(***************************************************************************)
FarRightTick ==
    /\ last_op = "update"
    /\ lf.mode # "if"
    /\ ~Config.INVERT_MOTOR_CORRECTION
    /\ ActiveSet = {"right2"}

ErrorOfReading == (ActiveWeightSum * ErrScale) \div Cardinality(ActiveSet)

C23_PreviousErrorIsThisTicksError ==
    /\ []((PidTick /\ LineSeen) => lf.previous_error = ErrorOfReading)
    /\ [][(LineLost' \/ last_op' \in {"set_speed", "set_pid_gains"})
             => lf'.previous_error = lf.previous_error]_vars
    /\ [][(lf.mode # "if" /\ LineSeen')
             => LET e  == ErrorOfReading'
                    dt == IF lf'.last_time - lf.last_time <= 0 THEN 10
                          ELSE lf'.last_time - lf.last_time
                    p  == RDiv(lf.kp * e * SpeedScale, ErrScale)
                    i  == RDiv(lf.ki * lf'.integral * SpeedScale, IntScale)
                    d  == RDiv(lf.kd * 7 * (e - lf.previous_error) * MsPerSec * SpeedScale,
                               10 * ErrScale * dt)
                IN lf'.last_correction = RDiv(7 * (p + i + d) + 3 * lf.last_correction, 10)]_vars

\* the line is found again on the far right after a lost episode that began
\* with the line left of centre
C23_Witness ==
    /\ PidTick /\ LineSeen
    /\ reacquired
    /\ pid_calls = 2
    /\ ActiveSet = {"right2"}
    /\ lf.previous_error = 2 * ErrScale
    /\ lf.search_direction = "left"

(***************************************************************************)
(* C24.  On every update() tick, recovery ticks included, every speed      *)
(* passed to a motor call other than stop (the set_motor_speeds pair, the  *)
(* creep speed base_speed * 0.4, the rotation speed) lies in               *)
(* [min_motor_speed, 100], for every base_speed reached by construction    *)
(* or set_speed.                                                           *)
(***************************************************************************)
C24_EveryCommandedSpeedInRange ==
    last_op = "update" =>
        \A i \in MotorCalls :
            \A j \in DOMAIN hw[i].args :
                InRange(hw[i].args[j], lf.min_motor_speed, 100 * SpeedScale)

\* the same for the creep of a controller whose base_speed set_speed has put
\* inside [20, 100]: violated too, the creep speed is not clamped
C24_CreepSpeedInRange ==
    (LineLost /\ InRange(lf.base_speed, 20 * SpeedScale, 100 * SpeedScale)) =>
        \A i \in MotorCalls :
            hw[i].op = "forward" =>
                InRange(hw[i].args[1], lf.min_motor_speed, 100 * SpeedScale)

(***************************************************************************)
(* C25.  In every reachable state min_motor_speed = max(15, 0.25 *         *)
(* base_speed); set_speed(s) stores base_speed = clamp(s, 20, 100),        *)
(* recomputes min_motor_speed in the same call and changes nothing else.   *)
(***************************************************************************)
C25_FloorFollowsBaseSpeed ==
    /\ [](4 * lf.min_motor_speed = Max(4 * 15 * SpeedScale, lf.base_speed))
    /\ [][last_op' = "set_speed" =>
             /\ lf'.base_speed \in
                    { (IF s < 20 THEN 20 ELSE IF s > 100 THEN 100 ELSE s) * SpeedScale :
                          s \in SpeedArgs }
             /\ InRange(lf'.base_speed, 20 * SpeedScale, 100 * SpeedScale)
             /\ lf' = [lf EXCEPT !.base_speed = lf'.base_speed,
                                 !.min_motor_speed = lf'.min_motor_speed]]_vars

\* set_speed(150) on a controller built with LINE_FOLLOW_SPEED = 10: the
\* base speed goes from 10 to 100 and the floor from 15 to 25
C25_Witness ==
    /\ last_op = "set_speed"
    /\ Config.LINE_FOLLOW_SPEED = 10
    /\ lf.base_speed = 100 * SpeedScale
    /\ lf.min_motor_speed = 25 * SpeedScale

(***************************************************************************)
(* C26.  In the owning controller every activation of autonomous control   *)
(* (auto_mode_active going from false to true) is preceded by              *)
(* LineFollower.reset() with no update() between the reset and the         *)
(* activation, under every sequence of mode commands, panoramic captures,  *)
(* collisions and recovery failures.                                       *)
(***************************************************************************)
Activation == ~robot.auto_mode_active /\ robot'.auto_mode_active

C26_ActivationFollowsReset ==
    [][Activation => ctl'.fresh_reset]_vars

\* the activations made by set_mode('auto') do follow a reset
C26_SetModeActivationFollowsReset ==
    [][(Activation /\ last_op' = "set_mode") =>
           /\ ctl'.fresh_reset
           /\ \E now \in Times : lf' = reset(lf, now)]_vars

(***************************************************************************)
(* C27.  When update() returns false the owning loop gives autonomous      *)
(* control up in the same iteration (auto_mode_active false, mode          *)
(* 'manual'), and update() is not called again until autonomous control    *)
(* is activated again.                                                     *)
(***************************************************************************)
C27_FailureRelinquishesControl ==
    /\ [][(last_op' = "update" /\ ~ret') =>
             /\ ~robot'.auto_mode_active
             /\ robot'.mode = "manual"
             /\ ctl'.relinquished]_vars
    /\ [][last_op' = "update" => (robot.auto_mode_active /\ ~ctl.relinquished)]_vars
    /\ [][(ctl.relinquished /\ ~ctl'.relinquished) => Activation]_vars

\* the 71st lost tick in a row: update() returned False and the loop left the
\* robot in manual mode with autonomous control off
C27_Witness ==
    /\ last_op = "update"
    /\ ~ret
    /\ lf.line_lost_counter = 71
    /\ ~robot.auto_mode_active
    /\ robot.mode = "manual"
    /\ ctl.relinquished

(***************************************************************************)
(* C28.  The recovery boundaries are taken from configuration: the lost    *)
(* tick on which the machine gives up (stops and returns false) is the     *)
(* first one past the configured limit Config.LINE_LOST_MAX_COUNT, which   *)
(* the constructor stores in max_lost_iterations.                          *)
(***************************************************************************)
C28_GivesUpPastConfiguredLimit ==
    LineLost =>
        /\ lf.max_lost_iterations = Config.LINE_LOST_MAX_COUNT
        /\ ret = (lf.line_lost_counter <= Config.LINE_LOST_MAX_COUNT)

(***************************************************************************)
(* C29.  No recovery phase carries over between lost episodes.  A tick     *)
(* that sees the line clears the counter whatever it was and records the   *)
(* error of its reading in last_known_error; lost ticks, set_speed and     *)
(* set_pid_gains leave that record alone; and the next lost tick starts a  *)
(* new episode: the counter becomes 1, the robot creeps forward, and       *)
(* search_direction is derived from last_known_error and last_direction    *)
(* of the latest line-seen tick alone, whatever the direction of the       *)
(* episode before.                                                         *)
(***************************************************************************)
C29_EpisodesStartAfresh ==
    /\ [](LineSeen =>
            /\ lf.line_lost_counter = 0
            /\ lf.last_known_error =
                  IF lf.mode # "if" THEN ErrorOfReading
                  ELSE IF {"left2", "left1"} \cap ActiveSet # {} THEN -ErrScale
                  ELSE IF {"right2", "right1"} \cap ActiveSet # {} THEN ErrScale
                  ELSE 0)
    /\ [][(LineLost' \/ last_op' \in {"set_speed", "set_pid_gains"})
             => /\ lf'.last_known_error = lf.last_known_error
                /\ lf'.last_direction = lf.last_direction]_vars
    /\ [][(lf.line_lost_counter = 0 /\ LineLost')
             => /\ lf'.line_lost_counter = 1
                /\ hw'[Len(hw')] = Call("forward", <<(lf.base_speed * 4) \div 10>>)
                /\ ret'
                /\ lf'.search_direction =
                      IF 10 * lf.last_known_error < -3 * ErrScale THEN "left"
                      ELSE IF 10 * lf.last_known_error > 3 * ErrScale THEN "right"
                      ELSE IF lf.last_direction = "left" THEN "left"
                      ELSE "right"]_vars

\* the first lost tick right after the line was found again during a search
\* to the left: a new episode at counter 1, creeping, searching to the right
C29_Witness ==
    /\ LineLost
    /\ epi.prev_dir = "left"
    /\ lf.line_lost_counter = 1
    /\ hw[Len(hw)].op = "forward"
    /\ lf.search_direction = "right"
    /\ lf.last_direction = "center"

(***************************************************************************)
(* C30.  Within one lost episode the phases are commanded only in the      *)
(* order CREEP (forward), TOWARD (rotation towards search_direction), AWAY *)
(* (rotation away from it), FAILED (stop): the first lost tick of an       *)
(* episode creeps, and every later lost tick commands the phase of the     *)
(* lost tick before it or the one right after that phase.                  *)
(***************************************************************************)
C30_PhasesInOrder ==
    /\ [][LineLost' =>
             /\ epi.phase = 0 => epi'.phase = 1
             /\ epi.phase > 0 => epi'.phase \in {epi.phase, epi.phase + 1} \cap 1..4]_vars
    /\ [][(epi.phase > 0 /\ epi'.phase = 0) => (LineSeen' \/ last_op' = "reset")]_vars
    /\ []((epi.phase = 0) <=> (lf.line_lost_counter = 0))

\* the episode has gone through the creep and both rotations and gives up
C30_Witness ==
    /\ LineLost
    /\ epi.phase = 4
    /\ hw[Len(hw)].op = "stop"
    /\ lf.search_direction = "left"
    /\ lf.line_lost_counter = 72

(***************************************************************************)
(* C31.  One PID computation with error e and elapsed time dt (0.01 s when *)
(* the clock did not advance) returns                                      *)
(*   0.7 * (kp*e + ki*I + kd*0.7*(e - previous_error)/dt)                  *)
(*     + 0.3 * last_correction,                                            *)
(* I being the integral after adding e*dt and clamping to [-10, 10]; it    *)
(* stores I, previous_error = e, last_time = now and last_correction =     *)
(* the returned value, which is the correction applied to the wheels.      *)
(***************************************************************************)
C31_PidComputation ==
    [][(lf.mode # "if" /\ LineSeen')
          => LET e   == ErrorOfReading'
                 now == lf'.last_time
                 dt  == IF now - lf.last_time <= 0 THEN 10 ELSE now - lf.last_time
                 sum == lf.integral + e * dt
                 I   == IF sum > 10 * IntScale THEN 10 * IntScale
                        ELSE IF sum < -10 * IntScale THEN -10 * IntScale
                        ELSE sum
                 raw == RDiv(lf.kp * e * SpeedScale, ErrScale)
                        + RDiv(lf.ki * I * SpeedScale, IntScale)
                        + RDiv(lf.kd * 7 * (e - lf.previous_error) * MsPerSec * SpeedScale,
                               10 * ErrScale * dt)
                 out == RDiv(7 * raw + 3 * lf.last_correction, 10)
             IN /\ now \in Times
                /\ lf'.integral = I
                /\ lf'.previous_error = e
                /\ lf'.last_correction = out
                /\ hw'[Len(hw')] = apply_correction(lf', out)
                /\ pid_calls' = pid_calls + 1]_vars

\* the second computation, 30 s after the first, with the line left of
\* centre: the integral is clamped at -10 and every term contributes
C31_Witness ==
    /\ PidTick /\ LineSeen
    /\ pid_calls = 2
    /\ lf.kd > 0
    /\ lf.last_time = 30000
    /\ lf.integral = -10 * IntScale
    /\ 2 * lf.previous_error = -ErrScale
    /\ lf.last_correction < 0

(***************************************************************************)
(* C32.  In every reachable state of both strategies last_direction agrees *)
(* with last_known_error: 'left' iff last_known_error < -0.3, 'right' iff  *)
(* last_known_error > 0.3, 'center' otherwise.  In rule-based mode         *)
(* last_known_error is -1, 0 or 1, a left-side sensor winning over a       *)
(* right-side one.  So a lost episode entered with |last_known_error| <=   *)
(* 0.3 searches to the right.                                              *)
(***************************************************************************)
C32_DirectionAgreesWithError ==
    /\ [](/\ (lf.last_direction = "left") <=> (10 * lf.last_known_error < -3 * ErrScale)
          /\ (lf.last_direction = "right") <=> (10 * lf.last_known_error > 3 * ErrScale)
          /\ lf.last_direction \in {"left", "right", "center"})
    /\ [](lf.mode = "if" =>
            /\ lf.last_known_error \in {-ErrScale, 0, ErrScale}
            /\ LineSeen =>
                  lf.last_direction =
                      IF ActiveSet \cap {"left2", "left1"} # {} THEN "left"
                      ELSE IF ActiveSet \cap {"right2", "right1"} # {} THEN "right"
                      ELSE "center")
    /\ [][(/\ LineLost'
           /\ lf.line_lost_counter = 0
           /\ 10 * lf.last_known_error >= -3 * ErrScale
           /\ 10 * lf.last_known_error <= 3 * ErrScale)
             => lf'.search_direction = "right"]_vars

\* PID mode: the line was found again at the centre during a search to the
\* left and is lost on the next tick: the new episode searches to the right
C32_Witness ==
    /\ LineLost
    /\ lf.mode # "if"
    /\ lf.line_lost_counter = 1
    /\ epi.prev_dir = "left"
    /\ lf.last_known_error = 0
    /\ lf.last_direction = "center"
    /\ lf.search_direction = "right"

(***************************************************************************)
(* C33.  A tick in which no sensor sees the line, in any recovery phase,   *)
(* leaves previous_error, integral, last_time, last_correction,            *)
(* last_known_error, last_direction, base_speed and the gains unchanged:   *)
(* of the fields of the controller it changes only line_lost_counter and,  *)
(* on the first tick of the episode only, search_direction.                *)
(***************************************************************************)
C33_LostTickFrame ==
    [][LineLost' =>
          /\ lf'.previous_error = lf.previous_error
          /\ lf'.integral = lf.integral
          /\ lf'.last_time = lf.last_time
          /\ lf'.last_correction = lf.last_correction
          /\ lf'.last_known_error = lf.last_known_error
          /\ lf'.last_direction = lf.last_direction
          /\ lf'.base_speed = lf.base_speed
          /\ <<lf'.kp, lf'.ki, lf'.kd>> = <<lf.kp, lf.ki, lf.kd>>
          /\ lf' = [lf EXCEPT !.line_lost_counter = lf'.line_lost_counter,
                              !.search_direction = lf'.search_direction]
          /\ lf'.line_lost_counter # lf.line_lost_counter
          /\ lf.line_lost_counter > 0 => lf'.search_direction = lf.search_direction
          /\ pid_calls' = pid_calls]_vars

\* a PID controller that has built up an integral and a correction, on the
\* first rotation tick of a lost episode
C33_Witness ==
    /\ LineLost
    /\ lf.mode # "if"
    /\ lf.line_lost_counter = 9
    /\ lf.integral # 0
    /\ lf.last_correction # 0
    /\ lf.previous_error # 0
    /\ hw[Len(hw)].op = "turn_left"

(***************************************************************************)
(* C34.  Under the rule-based strategy no update() call modifies a PID     *)
(* state variable: integral, previous_error, last_time and last_correction *)
(* keep the values construction or the last reset() gave them, and no PID  *)
(* computation is made.                                                    *)
(***************************************************************************)
C34_IfModeLeavesPidStateAlone ==
    /\ [][(lf.mode = "if" /\ last_op' = "update") =>
             /\ lf'.integral = lf.integral
             /\ lf'.previous_error = lf.previous_error
             /\ lf'.last_time = lf.last_time
             /\ lf'.last_correction = lf.last_correction
             /\ pid_calls' = pid_calls]_vars
    /\ [](lf.mode = "if" =>
            /\ lf.integral = 0 /\ lf.previous_error = 0 /\ lf.last_correction = 0
            /\ pid_calls = 0)

\* a rule-based tick with the line under the far-right sensor, on a
\* controller constructed or reset when the clock read 30 s
C34_Witness ==
    /\ IfTick
    /\ ActiveSet = {"right2"}
    /\ lf.last_time = 30000
    /\ lf.previous_error = 0
    /\ lf.last_known_error = ErrScale
    /\ hw[Len(hw)].op = "set_motor_speeds"

(***************************************************************************)
(* C35.  The failed state of the recovery is not absorbing.  After         *)
(* update() has returned false (counter above 70) and with no reset()      *)
(* since, a tick in which a sensor sees the line returns true, logs the    *)
(* reacquisition, clears line_lost_counter and issues the tracking         *)
(* command of its strategy for the reading.                                *)
(***************************************************************************)
C35_FailedIsNotAbsorbing ==
    [][(lf.line_lost_counter > 70 /\ LineSeen')
          => /\ ~ret
             /\ ret'
             /\ reacquired'
             /\ lf'.line_lost_counter = 0
             /\ Len(hw') = 2
             /\ hw'[2] =
                   IF lf.mode = "if"
                   THEN Call("set_motor_speeds",
                             calculate_if_correction(lf', ReadSensors(reading')))
                   ELSE apply_correction(lf', lf'.last_correction)
             /\ lf.mode # "if" => lf'.previous_error = ErrorOfReading']_vars

\* PID mode: the line is found under the far-right sensor after the recovery
\* had given up
C35_Witness ==
    /\ LineSeen
    /\ lf.mode # "if"
    /\ epi.prev_failed
    /\ ret
    /\ lf.line_lost_counter = 0
    /\ ActiveSet = {"right2"}
    /\ hw[Len(hw)].op = "set_motor_speeds"

(***************************************************************************)
(* C36.  A controller that has been reset() behaves as a freshly           *)
(* constructed one with the same base_speed, gains and strategy: fed the   *)
(* same readings at the same times, both issue the same motor commands and *)
(* return the same values, whatever preceded the reset.  Shown by a        *)
(* relation that holds between the two right after the reset and that      *)
(* every operation preserves with equal calls and results: the two         *)
(* instances are equal, or they differ in search_direction only while      *)
(* line_lost_counter is 0 (the first lost tick assigns it before any tick  *)
(* reads it).                                                              *)
(***************************************************************************)
FreshTwin(self) ==
    construct([Config EXCEPT !.LINE_FOLLOW_SPEED = self.base_speed \div SpeedScale,
                             !.LINE_FOLLOW_KP = self.kp,
                             !.LINE_FOLLOW_KI = self.ki,
                             !.LINE_FOLLOW_KD = self.kd],
              self.last_time)

Alike(a, b) ==
    \/ a = b
    \/ /\ a.line_lost_counter = 0
       /\ [a EXCEPT !.search_direction = b.search_direction] = b

TwinInputs == IF lf.mode = "if" THEN Readings ELSE PidReadings

C36_ResetBehavesAsFresh ==
    /\ last_op = "reset" => Alike(lf, FreshTwin(lf))
    /\ lf.line_lost_counter = 0 =>
          \A d \in {"left", "right"} \ {lf.search_direction} :
              LET twin == [lf EXCEPT !.search_direction = d]
              IN /\ \A s \in TwinInputs, now \in Times :
                        LET a == update(lf, Raw(s), now)
                            b == update(twin, Raw(s), now)
                        IN /\ a.hw = b.hw
                           /\ a.ret = b.ret
                           /\ Alike(a.self, b.self)
                 /\ \A speed \in SpeedArgs :
                        Alike(set_speed(lf, speed), set_speed(twin, speed))
                 /\ \A g \in GainArgs :
                        Alike(set_pid_gains(lf, g[1], g[2], g[3]),
                              set_pid_gains(twin, g[1], g[2], g[3]))
                 /\ \A now \in Times : Alike(reset(lf, now), reset(twin, now))

\* a reset after set_speed(10) and a lost episode that searched to the left:
\* the instance differs from its fresh twin in search_direction
C36_Witness ==
    /\ last_op = "reset"
    /\ lf.search_direction = "left"
    /\ FreshTwin(lf).search_direction = "right"
    /\ lf.base_speed = 20 * SpeedScale
    /\ lf # FreshTwin(lf)
    /\ Alike(lf, FreshTwin(lf))

(***************************************************************************)
(* C37.  In every reachable state of the owning controller                 *)
(* auto_mode_active is true only if mode is 'auto', under every            *)
(* interleaving of the gateway commands, the panoramic-capture task and    *)
(* the autonomous control loop.                                            *)
(***************************************************************************)
C37_ActiveOnlyInAutoMode ==
    robot.auto_mode_active => robot.mode = "auto"

(***************************************************************************)
(* C38.  While the mode of the owning controller is not 'manual', a        *)
(* gateway motor command (forward/up, backward/down, left, right, stop,    *)
(* set_speed) makes no call on the motors and schedules nothing, and the   *)
(* delayed stop scheduled by a manual left/right command makes no call     *)
(* when it fires after the mode has left 'manual'.                         *)
(***************************************************************************)
C38_NoManualMotionOutsideManualMode ==
    /\ [][(last_op' = "motor_command" /\ robot.mode # "manual")
             => (hw' = <<>> /\ robot' = robot)]_vars
    /\ [][(last_op' = "auto_stop" /\ robot.mode # "manual")
             => (hw' = <<>> /\ robot'.auto_stops = robot.auto_stops - 1)]_vars
    /\ [][(robot'.auto_stops > robot.auto_stops)
             => (robot.mode = "manual" /\ hw'[1].op \in {"turn_left", "turn_right"})]_vars

\* a delayed stop scheduled in manual mode fires while the robot follows the
\* line in auto mode, and leaves the motors alone
C38_Witness ==
    /\ last_op = "auto_stop"
    /\ hw = <<>>
    /\ robot.mode = "auto"
    /\ robot.auto_mode_active
    /\ robot.auto_stops = 0
    /\ lf.line_lost_counter = 0

(***************************************************************************)
(* C39: in the gateway connection manager, under any interleaving of robot *)
(* connects and disconnects, a robot socket is registered for a robotId    *)
(* whenever some robot connection for that id is still open.               *)
(***************************************************************************)
OpenRobots(id) ==
    { ws \in Sockets : gateway.conns[ws] = [robotId |-> id, at |-> "receive"] }

C39_OpenRobotIsRegistered ==
    \A id \in RobotIds : OpenRobots(id) # {} => robot_connected(gateway, id)

(***************************************************************************)
(* C39, second half: the disconnect of a stale connection never removes    *)
(* the socket of a newer connection: when the handler of one websocket     *)
(* returns, an entry of robot_sockets that holds another websocket stays.  *)
(***************************************************************************)
C39_StaleDisconnectKeepsNewerSocket ==
    [][\A ws \in Sockets, id \in RobotIds :
          (/\ gateway.conns[ws].at = "gone"
           /\ gateway'.conns[ws].at = "returned"
           /\ robot_connected(gateway, id)
           /\ gateway.robot_sockets[id] # ws)
          => (/\ robot_connected(gateway', id)
              /\ gateway'.robot_sockets[id] = gateway.robot_sockets[id])]_vars

============================================================================
